---- MODULE Spec2Model ----
(***************************************************************************)
(* Project Scribe (src/scribe0.py): the step-pipeline engine of            *)
(* ScribeAgent.  A run is: argument flags resolved (ScribeAgent.__init__),  *)
(* collaborators constructed, then ScribeAgent.run walks the configured     *)
(* validation_steps, one loop iteration per action, and emits the report.   *)
(* External tools, the file system and the inference backend are inputs     *)
(* chosen with \E at the point where the code consults them.                *)
(***************************************************************************)
EXTENDS Integers, Sequences, FiniteSets, TLC

VARIABLES
    pc,               \* position of the process: construct, run, loop, report, exited, crashed;
                      \* call, returned for a method called on its own
    call,             \* a method of a collaborator called on its own: its input and its result
    lems,             \* LEMSServiceMVP (src/aci_v2/lems_mvp/service.py): the service object, the
                      \* configuration store behind it and the outcome of the latest call
    args,             \* argparse.Namespace after _parse_arguments
    review_only,      \* ScribeAgent._review_only
    no_commit,        \* ScribeAgent._no_commit
    do_commit,        \* ScribeAgent._do_commit
    config,           \* ScribeConfig._config (the keys the pipeline reads)
    git_exe,          \* ScribeAgent.git_exe is not None
    overall_success,  \* ScribeAgent._overall_success
    file_paths,       \* _source_file_path / _target_file_path are set
    env_manager,      \* EnvironmentManager: the venv on disk and the paths found in it
    report_data,      \* ScribeAgent._report_data (FinalReport)
    step_outputs,     \* run()'s local step_outputs: name -> recorded step result
    step_index,       \* position of the for loop in validation_steps
    environment,      \* what the run has found outside the process: inference backend, HTTP library,
                      \* manifests, the output of git status, the target directory, the git binary,
                      \* the source and target file paths, the install of the audit tool,
                      \* how the git commands of the latest commit_changes ended, the venv
                      \* path as the latest setup_venv found it
    invoked,          \* history: the step functions called, in order
    dependency_args,  \* history: the dependency each of those calls was given (None when without)
    raised,           \* history: what each of those calls raised ("none" when it returned)
    api_calls,        \* history: the calls of LLMClient._call_api, each with its request attempts
    commands,         \* history: the external commands handed to subprocess.run, in order
    printed,          \* history: the reports written to stdout, in order
    exit_code         \* the argument of sys.exit, once pc = "exited"

vars == <<pc, call, lems, args, review_only, no_commit, do_commit, config, git_exe,
          overall_success, file_paths, env_manager, report_data, step_outputs,
          step_index, environment, invoked, dependency_args, raised, api_calls,
          commands, printed, exit_code>>

----------------------------------------------------------------------------
(* Bounds of the model *)

\* longest configured validation_steps list
MaxSteps == 3

\* the step names a configured list is drawn from: the steps the orchestrator
\* treats specially, two ordinary steps, and a name WorkflowSteps does not define
StepUniverse ==
    {"validate_inputs", "format_code", "review_code", "run_precommit",
     "commit_changes", "generate_report", "no_such_step"}

\* the step names of the configurations that set up the environment
EnvStepUniverse ==
    {"validate_inputs", "setup_environment", "install_deps", "audit_deps",
     "format_code", "run_precommit", "commit_changes", "no_such_step"}

\* the check-and-test chain in the order of the default validation_steps,
\* followed by a name WorkflowSteps does not define
ChainTemplate ==
    <<"validate_inputs", "lint_code", "type_check", "generate_tests", "save_tests",
      "execute_tests", "run_precommit", "commit_changes", "no_such_step">>

\* the steps that hand their details to one another, in the order of the
\* default validation_steps, with a save_tests that comes before its producer;
\* then the steps the orchestrator treats specially and a name WorkflowSteps
\* does not define
DependencyTemplate ==
    <<"validate_inputs", "save_tests", "extract_signatures", "generate_tests",
      "save_tests", "execute_tests", "run_precommit", "commit_changes",
      "no_such_step">>

\* largest configured ollama_api_retries
MaxRetries == 2

SeqsUpTo(S, n) == UNION {[1..k -> S] : k \in 0..n}

Range(s) == {s[i] : i \in 1..Len(s)}

----------------------------------------------------------------------------
(* Constants of the program *)

STATUS_SUCCESS == "SUCCESS"
STATUS_FAILURE == "FAILURE"
STATUS_WARNING == "WARNING"
STATUS_SKIPPED == "SKIPPED"
STATUS_ADVISORY == "ADVISORY"
STATUS_PENDING == "PENDING"

\* the public methods of WorkflowSteps
WorkflowSteps ==
    {"validate_inputs", "setup_environment", "install_deps", "audit_deps",
     "apply_code", "format_code", "lint_code", "type_check",
     "extract_signatures", "generate_tests", "save_tests", "execute_tests",
     "review_code", "run_precommit", "commit_changes", "generate_report"}

\* sys.exit(2) after a failed construction, sys.exit(1) after a failed run
EXIT_INIT_FAILURE == 2
EXIT_RUN_FAILURE == 1
EXIT_OK == 0
\* exit_code before the process has exited
NOT_EXITED == 0 - 1

----------------------------------------------------------------------------
(* The environment: what an external command, the disk or the backend answers *)

\* what subprocess.run does with a command: the executable is not found, the OS
\* refuses to start it, it runs into the timeout, or it exits with a code
ToolEnv(codes, outs) ==
    {[start |-> s, rc |-> 0, stdout |-> ""] : s \in {"not_found", "os_error"}}
    \cup {[start |-> "timeout", rc |-> 0, stdout |-> o] : o \in outs}
    \cup {[start |-> "ok", rc |-> r, stdout |-> o] : r \in codes, o \in outs}

ExitCodes == {0, 1, 2}

\* the same for a command started through a path that was found on disk
\* earlier in the run (the pip of the venv): the file is still there
FoundToolEnv(codes, outs) ==
    {t \in ToolEnv(codes, outs) : t.start # "not_found"}

\* mutation of run_tool: subprocess.TimeoutExpired is not caught apart, and
\* leaves through `except Exception` as ScribeToolError
run_tool_TimeoutRaises(t) ==
    IF t.start \in {"not_found", "os_error", "timeout"}
    THEN [raised |-> TRUE, exc |-> "ScribeToolError", returncode |-> 0,
          stdout |-> "", timeout_marker |-> FALSE]
    ELSE [raised |-> FALSE, exc |-> "none", returncode |-> t.rc,
          stdout |-> t.stdout, timeout_marker |-> FALSE]

\* ToolRunner.run_tool: raises ScribeToolError when the executable is not found
\* or cannot be started; a timeout is returned as returncode -1 with a marker in
\* stderr; any exit code is returned
run_tool(t) ==
    IF t.start \in {"not_found", "os_error"}
    THEN [raised |-> TRUE, exc |-> "ScribeToolError", returncode |-> 0,
          stdout |-> "", timeout_marker |-> FALSE]
    ELSE IF t.start = "timeout"
    THEN [raised |-> FALSE, exc |-> "none", returncode |-> 0 - 1,
          stdout |-> t.stdout, timeout_marker |-> TRUE]
    ELSE [raised |-> FALSE, exc |-> "none", returncode |-> t.rc,
          stdout |-> t.stdout, timeout_marker |-> FALSE]

\* what _find_executable consults for an executable name: the tool_paths entry
\* of the configuration (is there one, is it a string that is not blank, is
\* the path a file, may it be executed), the venv_path argument (is one given,
\* is it a directory, is bin/<name> in it a file, may it be executed), and
\* shutil.which
Overrides ==
    [configured : BOOLEAN, nonblank : BOOLEAN, is_file : BOOLEAN, executable : BOOLEAN]
VenvDirs ==
    [supplied : BOOLEAN, is_dir : BOOLEAN, is_file : BOOLEAN, executable : BOOLEAN]

\* mutation of find_executable: the system search path is asked before the
\* venv
find_executable_PathFirst(override, venv, on_path) ==
    IF override.configured /\ override.nonblank
       /\ override.is_file /\ override.executable
    THEN "configured"
    ELSE IF on_path THEN "path"
    ELSE IF venv.supplied /\ venv.is_dir /\ venv.is_file /\ venv.executable
    THEN "venv"
    ELSE "FileNotFoundError"
\* ToolRunner._find_executable: where the returned path comes from, or the
\* FileNotFoundError it raises
find_executable(override, venv, on_path) ==
    LET custom == IF override.configured
                  THEN IF override.nonblank
                       THEN IF override.is_file /\ override.executable
                            THEN "configured" ELSE "fall back"
                       ELSE "fall back"
                  ELSE "fall back"
        in_venv == IF venv.supplied
                   THEN IF venv.is_dir
                        THEN IF venv.is_file /\ venv.executable
                             THEN "venv" ELSE "fall back"
                        ELSE "fall back"
                   ELSE "fall back"
    IN  IF custom # "fall back" THEN custom
        ELSE IF in_venv # "fall back" THEN in_venv
        ELSE IF on_path THEN "path"
        ELSE "FileNotFoundError"

\* what becomes of the process once its executable is resolved
Processes ==
    {[start |-> "os_error", rc |-> 0, stdout |-> ""],
     [start |-> "timeout", rc |-> 0, stdout |-> ""]}
    \cup {[start |-> "ok", rc |-> r, stdout |-> ""] : r \in ExitCodes}

\* run_tool, its first lines: the executable is resolved, and a
\* FileNotFoundError keeps the process from being started
Resolve(found, process) ==
    IF found = "FileNotFoundError"
    THEN [start |-> "not_found", rc |-> 0, stdout |-> ""]
    ELSE process

\* the command reaches subprocess.run unless the executable was not found
Issued(t, cmd) == IF t.start = "not_found" THEN <<>> ELSE <<cmd>>

----------------------------------------------------------------------------
(* Step results *)

\* a step function returned (status, details).  return_code is the exit code
\* of the step's tool as the details, the message or the report carry it
\* (<<>> when the step ran no tool to its end); api is the _call_api calls made
Return(status, message, raw_output, cmds, w) ==
    [raised |-> "none", status |-> status, message |-> message,
     raw_output |-> raw_output, return_code |-> <<>>, cmds |-> cmds,
     api |-> <<>>, w |-> w]

\* a step function raised exc (a ScribeError subclass, or "Exception" for any
\* other); the message of a tool error names the exit code
Raise(exc, cmds, w) ==
    [raised |-> exc, status |-> "RAISED", message |-> "", raw_output |-> "",
     return_code |-> <<>>, cmds |-> cmds, api |-> <<>>, w |-> w]

\* the result r of a step whose tool ended with exit code rc
WithCode(r, rc) == [r EXCEPT !.return_code = <<rc>>]

ScribeErrors ==
    {"ScribeConfigurationError", "ScribeInputError", "ScribeEnvironmentError",
     "ScribeToolError", "ScribeApiError", "ScribeFileSystemError"}

\* the details payload of a recorded result; None is [present |-> FALSE]
NoDetails == [present |-> FALSE, message |-> "", raw_output |-> ""]
Details(message, raw_output) ==
    [present |-> TRUE, message |-> message, raw_output |-> raw_output]

----------------------------------------------------------------------------
(* WorkflowSteps: one operator per step method.  w is the part of the agent  *)
(* a step reads and writes: [file_paths, env_manager, report_data].  Each     *)
(* operator is the set of results the method can produce, over every answer   *)
(* of the environment; a result carries the commands issued and the agent     *)
(* state the method leaves behind, also when it raises.                       *)

\* --source-file and --target-file against the disk, as validate_inputs finds
\* them: the source does not resolve; the target is absolute or has a ".."
\* part; the resolved target lies outside the target directory; the parent of
\* the target cannot be made; the source resolves to something that is no file
InputKinds ==
    {"valid", "source_missing", "target_not_relative", "target_escapes",
     "target_parent_blocked", "source_not_a_file"}
ObserveInputs(inputs) == IF inputs = "unknown" THEN InputKinds ELSE {inputs}

\* validate_inputs: resolves the source, then the target, recording each path
\* on the agent before the next check; every failure is re-raised as
\* ScribeInputError
validate_inputs(w) ==
    { LET w1 == [w EXCEPT !.environment.inputs = k]
          src == [w1 EXCEPT !.file_paths.source = TRUE]
          both == [src EXCEPT !.file_paths.target = TRUE]
      IN  CASE k = "source_missing" -> Raise("ScribeInputError", <<>>, w1)
            [] k = "target_not_relative" -> Raise("ScribeInputError", <<>>, src)
            [] k \in {"target_escapes", "target_parent_blocked", "source_not_a_file"} ->
                   Raise("ScribeInputError", <<>>, both)
            [] k = "valid" -> Return(STATUS_SUCCESS, "Inputs OK.", "", <<>>, both)
      : k \in ObserveInputs(w.environment.inputs) }

\* EnvironmentManager.find_venv_executable for python and pip, given the venv on disk
VenvHasPython(venv) == venv \in {"complete", "python_only"}
VenvHasPip(venv) == venv \in {"complete", "pip_only"}

\* the venv directory as the first look at the disk finds it
ObserveVenv(venv) ==
    IF venv = "unknown"
    THEN {"absent", "complete", "python_only", "pip_only", "empty"}
    ELSE {venv}

\* setup_venv, from the point where the venv path exists on disk in state venv
setup_venv_found(w, venv, cmds) ==
    LET w2 == [w EXCEPT !.env_manager =
                   [venv |-> venv, python_path |-> VenvHasPython(venv),
                    pip_path |-> VenvHasPip(venv)]]
    IN  IF ~(VenvHasPython(venv) /\ VenvHasPip(venv))
        THEN { Raise("ScribeEnvironmentError", cmds, w2) }
        ELSE { Return(STATUS_SUCCESS, "Venv ready.", "",
                      cmds \o Issued(t, "pip install --upgrade"), w2)
               : t \in FoundToolEnv(ExitCodes, {""}) }

\* mutation of VenvExists: the venv directory is never found
VenvExists_Never(venv) == FALSE

\* mutation of VenvExists: a venv path without python and pip counts as absent
VenvExists_OnlyComplete(venv) == venv = "complete"

\* setup_venv: self._venv_path.exists()
VenvExists(venv) == venv # "absent"

\* setup_environment -> EnvironmentManager.setup_venv; how the call found the
\* venv path is kept as environment.venv_found
setup_environment(w) ==
    UNION { LET w0 == [w EXCEPT !.environment.venv_found = venv]
            IN  IF ~VenvExists(venv)
                THEN UNION {
                       LET res == run_tool(t)
                           cmds == Issued(t, "python -m venv")
                       IN  IF res.raised \/ res.returncode # 0
                           THEN { Raise("ScribeEnvironmentError", cmds,
                                        [w0 EXCEPT !.env_manager.venv = left])
                                  : left \in IF t.start = "not_found"
                                             THEN {venv}
                                             ELSE {venv, "empty"} }
                           ELSE UNION { setup_venv_found(w0, made, cmds)
                                        : made \in {"complete", "python_only"} }
                       : t \in ToolEnv(ExitCodes, {""}) }
                ELSE setup_venv_found(w0, venv, <<>>)
          : venv \in ObserveVenv(w.env_manager.venv) }

\* mutation of PipSet: the pip of the venv counts as set from the start
PipSet_Always(env) == TRUE

\* install_dependencies and run_pip_audit: `if not self._pip_path` does not
\* raise
PipSet(env) == env.pip_path

\* pyproject.toml and requirements.txt in the target directory, as the first
\* look at the disk finds them
Manifests == {"pyproject", "requirements", "both", "none"}
ObserveManifests(manifests) ==
    IF manifests = "unknown" THEN Manifests ELSE {manifests}

\* install_dependencies: pyproj.is_file() and reqs.is_file()
HasPyproject(manifests) == manifests \in {"pyproject", "both"}
HasRequirements(manifests) == manifests \in {"requirements", "both"}

\* the pip commands tried for pyproject.toml, one per optional-group
\* combination, in order
InstallGroups ==
    <<"pip install -e .[dev,test,lint,format]", "pip install -e .[dev,test,lint]",
      "pip install -e .[dev,test]", "pip install -e .[dev]", "pip install -e .">>

\* the pyproject.toml loop of install_dependencies from group i on: the commands
\* issued and whether one installation succeeded
RECURSIVE pyproject_attempts(_, _)
pyproject_attempts(i, cmds) ==
    IF i > Len(InstallGroups)
    THEN { [inst |-> FALSE, cmds |-> cmds] }
    ELSE UNION {
           LET res == run_tool(t)
               cmds2 == cmds \o Issued(t, InstallGroups[i])
           IN  IF ~res.raised /\ res.returncode = 0
               THEN { [inst |-> TRUE, cmds |-> cmds2] }
               ELSE pyproject_attempts(i + 1, cmds2)
           : t \in FoundToolEnv({0, 1}, {""}) }

\* install_deps -> EnvironmentManager.install_dependencies: pyproject.toml when
\* it is there, requirements.txt only when pyproject.toml is not
install_deps(w) ==
    IF ~PipSet(w.env_manager)
    THEN { Raise("ScribeEnvironmentError", <<>>, w) }
    ELSE UNION {
           LET w2 == [w EXCEPT !.environment.manifests = m]
           IN  IF HasPyproject(m)
               THEN { IF a.inst
                      THEN Return(STATUS_SUCCESS, "Deps installed or skipped.", "",
                                  a.cmds, w2)
                      ELSE Raise("ScribeEnvironmentError", a.cmds, w2)
                      : a \in pyproject_attempts(1, <<>>) }
               ELSE IF HasRequirements(m)
               THEN { LET res == run_tool(t)
                          cmds == Issued(t, "pip install -r requirements.txt")
                      IN  IF res.raised \/ res.returncode # 0
                          THEN Raise("ScribeEnvironmentError", cmds, w2)
                          ELSE Return(STATUS_SUCCESS, "Deps installed or skipped.", "",
                                      cmds, w2)
                      : t \in FoundToolEnv(ExitCodes, {""}) }
               ELSE { Return(STATUS_SUCCESS, "Deps installed or skipped.", "", <<>>, w2) }
         : m \in ObserveManifests(w.environment.manifests) }

\* run_pip_audit, the install of pip-audit: a non-zero exit code and a
\* ScribeToolError of run_tool are logged as warnings, nothing is raised
audit_tool_install(ti) ==
    LET res == run_tool(ti)
        failed == res.raised \/ res.returncode # 0
    IN  [raised |-> "none",
         audit_tool |-> IF failed THEN "install_failed" ELSE "installed"]

\* what the audit command prints: nothing, a JSON object without
\* vulnerabilities, with vulnerabilities none of which is of high severity, with
\* one of high severity, text that is no JSON, JSON that is no object
AuditOutputs ==
    {"", "no vulnerabilities", "low vulnerabilities", "high vulnerabilities",
     "not json", "not an object"}

\* json.loads(res.stdout).get("vulnerabilities", []) of an object
Vulnerabilities(stdout) ==
    IF stdout \in {"low vulnerabilities", "high vulnerabilities"} THEN stdout
    ELSE "[]"

\* mutation of audit_status: a vulnerability of the fail_on_audit_severity
\* of the configuration fails the step
audit_status_FailsOnHigh(vulns) ==
    IF vulns = "[]" THEN STATUS_SUCCESS
    ELSE IF vulns = "high vulnerabilities" THEN STATUS_FAILURE
    ELSE STATUS_WARNING

\* audit_deps: SUCCESS without vulnerabilities, else WARNING
audit_status(vulns) == IF vulns = "[]" THEN STATUS_SUCCESS ELSE STATUS_WARNING

\* audit_deps -> EnvironmentManager.run_pip_audit, then the parse of its
\* stdout; how the install of pip-audit went in this call is kept as
\* environment.audit_tool
audit_deps(w) ==
    IF ~PipSet(w.env_manager)
    THEN { Raise("ScribeEnvironmentError", <<>>, w) }
    ELSE UNION {
           LET inst == audit_tool_install(ti)
               w1 == [w EXCEPT !.environment.audit_tool = inst.audit_tool]
               res == run_tool(t)
               cmds == Issued(ti, "pip install pip-audit") \o Issued(t, "pip audit")
           IN  IF inst.raised # "none"
               THEN { Raise(inst.raised, Issued(ti, "pip install pip-audit"), w1) }
               ELSE IF res.raised
               THEN { Raise("ScribeToolError", cmds, w1) }
               ELSE { WithCode(
                      IF res.stdout = "not json"
                      THEN Return(STATUS_WARNING, "pip-audit JSON parse error.", "",
                                  cmds, w1)
                      ELSE IF res.stdout = "not an object"
                      THEN Raise("Exception", cmds, w1)
                      ELSE LET vulns == Vulnerabilities(res.stdout)
                           IN Return(audit_status(vulns),
                                     IF vulns = "[]" THEN "No vulnerabilities."
                                     ELSE "Found vulnerabilities.", "", cmds,
                                     [w1 EXCEPT !.report_data.audit_findings = vulns]),
                      res.returncode) }
           : ti \in FoundToolEnv({0, 1}, {""}),
             t \in FoundToolEnv({0, 1}, AuditOutputs) }

\* apply_code: read the source, write the target; an unset path or an I/O
\* failure is an unexpected exception
apply_code(w) ==
    IF ~w.file_paths.source \/ ~w.file_paths.target
    THEN { Raise("Exception", <<>>, w) }
    ELSE { Raise("Exception", <<>>, w),
           Return(STATUS_SUCCESS, "", "", <<>>, w) }

\* mutation of format_code: exit code 1 is taken for "files were reformatted"
format_code_IssuesPass(w) ==
    { LET res == run_tool(t)
          cmds == Issued(t, "ruff format")
      IN  IF res.raised THEN Raise("ScribeToolError", cmds, w)
          ELSE IF res.returncode \in {0, 1}
          THEN WithCode(Return(STATUS_SUCCESS, "Formatted.", "", cmds, w),
                        res.returncode)
          ELSE WithCode(Raise("ScribeToolError", cmds, w), res.returncode)
      : t \in ToolEnv(ExitCodes, {""}) }

\* format_code: ruff format; any exit code but 0 is raised as ScribeToolError
format_code(w) ==
    { LET res == run_tool(t)
          cmds == Issued(t, "ruff format")
      IN  IF res.raised THEN Raise("ScribeToolError", cmds, w)
          ELSE IF res.returncode = 0
          THEN WithCode(Return(STATUS_SUCCESS, "Formatted.", "", cmds, w),
                        res.returncode)
          ELSE WithCode(Raise("ScribeToolError", cmds, w), res.returncode)
      : t \in ToolEnv(ExitCodes, {""}) }

\* lint_code and type_check: exit code 1 is "issues found", classified by the
\* strictness flag; any other non-zero code is raised
strict_tool_step(w, cmd, strict, ok_message, issues_message) ==
    { LET res == run_tool(t)
          cmds == Issued(t, cmd)
      IN  IF res.raised THEN Raise("ScribeToolError", cmds, w)
          ELSE IF res.returncode = 0
          THEN WithCode(Return(STATUS_SUCCESS, ok_message, "", cmds, w),
                        res.returncode)
          ELSE IF res.returncode = 1
          THEN WithCode(Return(IF strict THEN STATUS_FAILURE ELSE STATUS_WARNING,
                               issues_message, "", cmds, w), res.returncode)
          ELSE WithCode(Raise("ScribeToolError", cmds, w), res.returncode)
      : t \in ToolEnv(ExitCodes, {""}) }

lint_code(w, cfg) ==
    strict_tool_step(w, "ruff check --fix", cfg.fail_on_lint_critical,
                     "Lint OK.", "Lint issues found.")

type_check(w, cfg) ==
    strict_tool_step(w, "mypy", cfg.fail_on_mypy_error,
                     "MyPy OK.", "MyPy type errors.")

\* extract_signatures: read and parse the target file; raw_output is the joined
\* signatures, empty when the file defines nothing
extract_signatures(w) ==
    IF ~w.file_paths.target
    THEN { Raise("Exception", <<>>, w) }
    ELSE { Raise("Exception", <<>>, w) }
         \cup { Return(STATUS_SUCCESS, "Extracted sigs.", sigs, <<>>, w)
                : sigs \in {"", "signatures"} }

\* HTTP_LIB after the import fallback at module load: httpx when it imports,
\* else requests when that imports, else None
HttpLibs == {"httpx", "requests", "none"}
ObserveHttpLib(http_lib) == IF http_lib = "unknown" THEN HttpLibs ELSE {http_lib}

\* the inference backend as the run finds it: it refuses or times out every
\* request, only the first one, answers with a body that is no JSON, answers
\* with an "error" member, without a "response" member, with an empty text,
\* or with test code
Backends ==
    {"unreachable", "flaky", "malformed", "rejects", "incomplete", "empty", "tests"}
ObserveBackend(backend) == IF backend = "unknown" THEN Backends ELSE {backend}

\* what request number attempt ends with inside the try block of _call_api: an
\* exception, or the "response" text of the reply
Answer(backend, attempt) ==
    CASE backend = "unreachable" -> "RequestError"
      [] backend = "flaky" -> IF attempt = 1 THEN "RequestError" ELSE "tests"
      [] backend = "malformed" -> "JSONDecodeError"
      [] backend \in {"rejects", "incomplete"} -> "ScribeApiError"
      [] backend = "empty" -> ""
      [] backend = "tests" -> "tests"

ApiExceptions == {"RequestError", "JSONDecodeError", "ScribeApiError"}

\* the module names the import fallback binds: httpx only when its import
\* succeeded, requests only when the import of httpx failed
NameBound(name, http_lib) == name = http_lib

\* _call_api, the first except clause: its expression
\* (httpx.RequestError, requests.exceptions.RequestException) is evaluated when
\* the try block raises, and needs both module names
RequestErrorsResolve(http_lib) ==
    NameBound("httpx", http_lib) /\ NameBound("requests", http_lib)

\* _call_api, the for loop from request number attempt on; made holds how the
\* earlier requests ended.  An exception in the try block whose first except
\* clause cannot be evaluated leaves the method as NameError; otherwise a
\* network error goes on to the next attempt and any other exception breaks
\* the loop; after the loop ScribeApiError is raised from the last exception
RECURSIVE call_api_attempts(_, _, _, _, _)
call_api_attempts(http_lib, retries, backend, attempt, made) ==
    IF attempt > retries + 1
    THEN [raised |-> "ScribeApiError",
          cause |-> IF made = <<>> THEN "None" ELSE made[Len(made)],
          response |-> "", attempts |-> made]
    ELSE LET answer == Answer(backend, attempt)
             made2 == Append(made, answer)
         IN  IF answer \notin ApiExceptions
             THEN [raised |-> "none", cause |-> "None", response |-> answer,
                   attempts |-> made2]
             ELSE IF ~RequestErrorsResolve(http_lib)
             THEN [raised |-> "NameError", cause |-> "None", response |-> "",
                   attempts |-> made2]
             ELSE IF answer = "RequestError"
             THEN call_api_attempts(http_lib, retries, backend, attempt + 1, made2)
             ELSE [raised |-> "ScribeApiError", cause |-> answer, response |-> "",
                   attempts |-> made2]

\* LLMClient._call_api(prompt, fmt): how the call ends and the requests it made
call_api(http_lib, retries, backend) ==
    IF http_lib = "none"
    THEN [raised |-> "ScribeApiError", cause |-> "None", response |-> "",
          attempts |-> <<>>]
    ELSE call_api_attempts(http_lib, retries, backend, 1, <<>>)

\* the keyword parameters _call_api takes
CallApiAccepts(keyword) == keyword \in {"prompt", "fmt"}

\* LLMClient.generate_tests: a prompt template naming an unknown field is
\* raised; every failure of the request or of the extracted code gives None
\* ("None"); else the extracted test code
LLMClient_generate_tests(env, retries) ==
    { [value |-> "None", raised |-> "ScribeConfigurationError", api |-> <<>>,
       environment |-> env] }
    \cup { LET api == call_api(lib, retries, b)
           IN  [value |-> IF api.raised # "none" \/ api.response = ""
                          THEN "None" ELSE api.response,
                raised |-> "none", api |-> <<api>>,
                environment |-> [env EXCEPT !.backend = b, !.http_lib = lib]]
           : b \in ObserveBackend(env.backend), lib \in ObserveHttpLib(env.http_lib) }

\* LLMClient.generate_review: the request is made as
\* _call_api(prompt, output_format_type="json"), a keyword _call_api does not
\* take, so the call raises TypeError inside the try and the method returns
\* None without a request; the backend is as it is all the same
LLMClient_generate_review(env, retries) ==
    { [value |-> "None", raised |-> "ScribeConfigurationError", api |-> <<>>,
       environment |-> env] }
    \cup IF ~CallApiAccepts("output_format_type")
         THEN { [value |-> "None", raised |-> "none", api |-> <<>>,
                 environment |-> [env EXCEPT !.backend = b]]
                : b \in ObserveBackend(env.backend) }
         ELSE { LET api == call_api(lib, retries, b)
                IN  [value |-> IF api.raised # "none" THEN "None"
                               ELSE IF api.response = "" THEN "[]" ELSE "findings",
                     raised |-> "none", api |-> <<api>>,
                     environment |-> [env EXCEPT !.backend = b, !.http_lib = lib]]
                : b \in ObserveBackend(env.backend),
                  lib \in ObserveHttpLib(env.http_lib) }

\* generate_tests(sig_details): reads the target file, asks the model client
generate_tests(w, dep, cfg) ==
    IF ~w.file_paths.target
    THEN { Raise("Exception", <<>>, w) }
    ELSE { Raise("Exception", <<>>, w) }
         \cup { LET w2 == [w EXCEPT !.environment = g.environment]
                IN  [(IF g.raised # "none"
                      THEN Raise(g.raised, <<>>, w2)
                      ELSE IF g.value = "None"
                      THEN Return(STATUS_FAILURE, "Test gen failed.", "", <<>>, w2)
                      ELSE Return(STATUS_SUCCESS, "Tests AI-generated.", g.value,
                                  <<>>, w2))
                     EXCEPT !.api = g.api]
                : g \in LLMClient_generate_tests(w.environment,
                                                 cfg.ollama_api_retries) }

\* save_tests(gen_tests_details): nothing to save is a WARNING
save_tests(w, dep) ==
    LET code == IF dep.present THEN dep.raw_output ELSE ""
    IN  IF code = ""
        THEN { Return(STATUS_WARNING, "No test code to save.", "", <<>>, w) }
        ELSE IF ~w.file_paths.target
        THEN { Raise("Exception", <<>>, w) }
        ELSE { Raise("Exception", <<>>, w),
               Return(STATUS_SUCCESS, "", "test file path", <<>>, w) }

\* execute_tests(saved_tests_details): pytest on the saved file; the summary is
\* written to the report before the exit code is classified
execute_tests(w, dep, cfg) ==
    LET path_str == IF dep.present THEN dep.raw_output ELSE ""
        not_found == Return(STATUS_FAILURE, "Test file not found", "", <<>>, w)
    IN  IF path_str = ""
        THEN { not_found }
        ELSE { not_found }
             \cup { LET res == run_tool(t)
                        cmds == Issued(t, "pytest")
                        w2 == [w EXCEPT !.report_data.test_results_summary = "summary"]
                    IN  IF res.raised THEN Raise("ScribeToolError", cmds, w)
                        ELSE WithCode(
                          IF res.returncode = 0
                          THEN Return(STATUS_SUCCESS, "All tests passed.", "", cmds, w2)
                          ELSE IF res.returncode = 1
                          THEN Return(IF cfg.fail_on_test_failure
                                      THEN STATUS_FAILURE ELSE STATUS_WARNING,
                                      "Some tests failed.", "", cmds, w2)
                          ELSE IF res.returncode = 5
                          THEN Return(STATUS_WARNING, "No tests collected by pytest.",
                                      "", cmds, w2)
                          ELSE Raise("ScribeToolError", cmds, w2),
                          res.returncode)
                    : t \in ToolEnv(ExitCodes \cup {5}, {""}) }

\* review_code: records whatever the model client returned and reports ADVISORY
review_code(w, cfg) ==
    IF ~w.file_paths.target
    THEN { Raise("Exception", <<>>, w) }
    ELSE { Raise("Exception", <<>>, w) }
         \cup { LET w2 == [w EXCEPT !.environment = g.environment]
                IN  [(IF g.raised # "none"
                      THEN Raise(g.raised, <<>>, w2)
                      ELSE Return(STATUS_ADVISORY,
                                  IF g.value \in {"None", "[]"}
                                  THEN "AI review found 0 items."
                                  ELSE "AI review found items.", "", <<>>,
                                  [w2 EXCEPT !.report_data.ai_review_findings = g.value]))
                     EXCEPT !.api = g.api]
                : g \in LLMClient_generate_review(w.environment,
                                                  cfg.ollama_api_retries) }

\* run_precommit: SKIPPED without a .pre-commit-config.yaml; any non-zero exit
\* code is FAILURE
run_precommit(w) ==
    { Return(STATUS_SKIPPED, "No .pre-commit-config.yaml", "", <<>>, w) }
    \cup { LET res == run_tool(t)
               cmds == Issued(t, "pre-commit run")
           IN  IF res.raised THEN Raise("ScribeToolError", cmds, w)
               ELSE IF res.returncode = 0
               THEN WithCode(Return(STATUS_SUCCESS, "Pre-commit passed.", "", cmds, w),
                             res.returncode)
               ELSE WithCode(Return(STATUS_FAILURE, "Pre-commit failed", "", cmds, w),
                             res.returncode)
           : t \in ToolEnv(ExitCodes, {""}) }

\* how a git command of commit_changes ended: <<>> when run_tool raised, else
\* its exit code.  The results of the latest call of commit_changes are kept,
\* in the order of the commands, as environment.git_results
GitResult(res) == IF res.raised THEN <<>> ELSE <<res.returncode>>
WithGitResult(w, res) ==
    [w EXCEPT !.environment.git_results = Append(@, GitResult(res))]

\* mutation of commit_rev_parse: commit_sha is written, then a non-zero exit
\* code of git rev-parse is raised
commit_rev_parse_RaisesAfterSha(w, cmds) ==
    { LET res == run_tool(t)
          cmds2 == cmds \o Issued(t, "git rev-parse HEAD")
          w2 == WithGitResult(w, res)
          w3 == [w2 EXCEPT !.report_data.commit_sha = res.stdout]
      IN  IF res.raised THEN Raise("ScribeToolError", cmds2, w2)
          ELSE IF res.returncode # 0 THEN Raise("ScribeToolError", cmds2, w3)
          ELSE Return(STATUS_SUCCESS, "Committed SHA", res.stdout, cmds2, w3)
      : t \in ToolEnv({0, 1}, {"", "sha"}) }

\* commit_changes after `git commit` exited 0: git rev-parse HEAD, whose stdout
\* becomes commit_sha whatever its exit code
commit_rev_parse(w, cmds) ==
    { LET res == run_tool(t)
          cmds2 == cmds \o Issued(t, "git rev-parse HEAD")
          w2 == WithGitResult(w, res)
      IN  IF res.raised THEN Raise("ScribeToolError", cmds2, w2)
          ELSE Return(STATUS_SUCCESS, "Committed SHA", res.stdout, cmds2,
                      [w2 EXCEPT !.report_data.commit_sha = res.stdout])
      : t \in ToolEnv({0, 1}, {"", "sha"}) }

\* commit_changes after `git add` exited 0: git commit -m
commit_commit(w, cmds) ==
    UNION { LET res == run_tool(t)
                cmds2 == cmds \o Issued(t, "git commit")
                w2 == WithGitResult(w, res)
            IN  IF res.raised THEN { Raise("ScribeToolError", cmds2, w2) }
                ELSE IF res.returncode # 0
                THEN IF res.stdout = "nothing to commit"
                     THEN { Return(STATUS_SUCCESS, "No effective changes staged for commit.",
                                   "", cmds2,
                                   [w2 EXCEPT !.report_data.commit_sha =
                                        "NO_EFFECTIVE_CHANGES_STAGED"]) }
                     ELSE { Raise("ScribeToolError", cmds2, w2) }
                ELSE commit_rev_parse(w2, cmds2)
            : t \in ToolEnv({0, 1}, {"", "nothing to commit"}) }

\* mutation of commit_add: the exit code of git add is not looked at
commit_add_IgnoresExit(w, cmds) ==
    UNION { LET res == run_tool(t)
                cmds2 == cmds \o Issued(t, "git add")
                w2 == WithGitResult(w, res)
            IN  IF res.raised
                THEN { Raise("ScribeToolError", cmds2, w2) }
                ELSE commit_commit(w2, cmds2)
            : t \in ToolEnv({0, 1}, {""}) }

\* commit_changes after `git status --porcelain` printed changes: git add
commit_add(w, cmds) ==
    UNION { LET res == run_tool(t)
                cmds2 == cmds \o Issued(t, "git add")
                w2 == WithGitResult(w, res)
            IN  IF res.raised \/ res.returncode # 0
                THEN { Raise("ScribeToolError", cmds2, w2) }
                ELSE commit_commit(w2, cmds2)
            : t \in ToolEnv({0, 1}, {""}) }

\* mutation of NoChanges: the output of git status is not looked at
NoChanges_Never(stdout) == FALSE

\* commit_changes: not status_res.stdout.strip()
NoChanges(stdout) == stdout = ""

\* environment.porcelain when git status did not return in the latest call of
\* commit_changes (git is not there, or run_tool raised)
NO_STATUS == "no status"

\* commit_changes: WARNING without git; otherwise status, add, commit,
\* rev-parse.  What git status printed in this call is kept as
\* environment.porcelain
commit_changes(w, git) ==
    IF ~git
    THEN { Return(STATUS_WARNING, "Git not found, commit skipped.", "", <<>>,
                  [w EXCEPT !.environment.porcelain = NO_STATUS,
                            !.environment.git_results = <<>>]) }
    ELSE UNION { LET res == run_tool(t)
                     cmds == Issued(t, "git status --porcelain")
                     w1 == [w EXCEPT !.environment.git_results = <<GitResult(res)>>]
                     w2 == [w1 EXCEPT !.environment.porcelain = res.stdout]
                 IN  IF res.raised
                     THEN { Raise("ScribeToolError", cmds,
                                  [w1 EXCEPT !.environment.porcelain = NO_STATUS]) }
                     ELSE IF NoChanges(res.stdout)
                     THEN { Return(STATUS_SUCCESS, "No changes to commit.", "", cmds,
                                   [w2 EXCEPT !.report_data.commit_sha = "NO_CHANGES"]) }
                     ELSE commit_add(w2, cmds)
                 : t \in ToolEnv({0, 1}, {"", "M target_file"}) }

\* generate_report: the step itself only reports that the data is prepared
generate_report(w) ==
    { Return(STATUS_SUCCESS, "Final report data prepared.",
             "Report generation triggered.", <<>>, w) }

\* getattr(self._workflow, step_name, None) is callable
IsStep(step_name) == step_name \in WorkflowSteps

\* step_func(dependency) if dependency else step_func(): the results of calling
\* the step method named step_name
step_func(step_name, dep, w, cfg, git) ==
    CASE step_name = "validate_inputs" -> validate_inputs(w)
      [] step_name = "setup_environment" -> setup_environment(w)
      [] step_name = "install_deps" -> install_deps(w)
      [] step_name = "audit_deps" -> audit_deps(w)
      [] step_name = "apply_code" -> apply_code(w)
      [] step_name = "format_code" -> format_code(w)
      [] step_name = "lint_code" -> lint_code(w, cfg)
      [] step_name = "type_check" -> type_check(w, cfg)
      [] step_name = "extract_signatures" -> extract_signatures(w)
      [] step_name = "generate_tests" -> generate_tests(w, dep, cfg)
      [] step_name = "save_tests" -> save_tests(w, dep)
      [] step_name = "execute_tests" -> execute_tests(w, dep, cfg)
      [] step_name = "review_code" -> review_code(w, cfg)
      [] step_name = "run_precommit" -> run_precommit(w)
      [] step_name = "commit_changes" -> commit_changes(w, git)
      [] step_name = "generate_report" -> generate_report(w)

----------------------------------------------------------------------------
(* ScribeAgent: flags, report data, step recording *)

\* mutation of ParseCommitIntent: without either flag the intent defaults to
\* no commit
ParseCommitIntent_DefaultFalse(commit_explicitly_true, commit_explicitly_false) ==
    commit_explicitly_true

\* _parse_arguments, after parse_args(): args.commit from the two flags of the
\* mutually exclusive group
ParseCommitIntent(commit_explicitly_true, commit_explicitly_false) ==
    IF commit_explicitly_true THEN TRUE
    ELSE IF commit_explicitly_false THEN FALSE
    ELSE TRUE

\* mutation of EffectiveCommit: --no-commit is not consulted
EffectiveCommit_IgnoresNoCommit(ro, nc, commit) ==
    IF ro THEN FALSE ELSE commit

\* __init__: the effective commit action
EffectiveCommit(ro, nc, commit) ==
    IF ro THEN FALSE
    ELSE IF nc THEN FALSE
    ELSE commit

\* the command lines argparse accepts, as far as the flags of a run go
ArgumentSets ==
    { [review_only |-> ro, no_commit |-> nc,
       commit_explicitly_true |-> g[1], commit_explicitly_false |-> g[2],
       commit |-> ParseCommitIntent(g[1], g[2])]
      : ro \in BOOLEAN, nc \in BOOLEAN,
        g \in {<<FALSE, FALSE>>, <<TRUE, FALSE>>, <<FALSE, TRUE>>} }

\* the command lines without a commit flag: none, or --review-only
PlainOrReviewOnly ==
    { a \in ArgumentSets : ~a.no_commit /\ ~a.commit_explicitly_true
                           /\ ~a.commit_explicitly_false }

\* ScribeConfig.get_list: the value when it is a list, else the default []
get_list(value) == IF value.is_list THEN value.items ELSE <<>>

\* a StepResult as the report keeps it
StepResult(name, status, message, error_message) ==
    [name |-> name, status |-> status, message |-> message,
     error_message |-> error_message, return_code |-> <<>>]

\* _initialize_report
initialize_report(commit_planned) ==
    [overall_status |-> STATUS_PENDING, commit_attempted |-> commit_planned,
     commit_sha |-> "None", steps |-> <<>>, audit_findings |-> "None",
     ai_review_findings |-> "None", test_results_summary |-> "None"]

\* report_data before _initialize_report has run
NoReportData ==
    [overall_status |-> "unset", commit_attempted |-> FALSE,
     commit_sha |-> "None", steps |-> <<>>, audit_findings |-> "None",
     ai_review_findings |-> "None", test_results_summary |-> "None"]

\* _print_minimal_error_report: the report printed when construction fails
minimal_error_report(commit_planned, error_msg) ==
    [overall_status |-> STATUS_FAILURE, commit_attempted |-> commit_planned,
     commit_sha |-> "None",
     steps |-> <<StepResult("initialization_failure", STATUS_FAILURE, "", error_msg)>>,
     audit_findings |-> "absent", ai_review_findings |-> "absent",
     test_results_summary |-> "absent"]

\* mutation of print_report: nothing reaches stdout
print_report_Lost(out, report) == out

\* print(...) of a report: one more document on stdout
print_report(out, report) == Append(out, report)

\* mutation of add_step_result: a SKIPPED result is not kept
add_step_result_UnlessSkipped(rd, result) ==
    IF result.status = STATUS_SKIPPED THEN rd
    ELSE [rd EXCEPT !.steps = Append(@, result)]

\* _add_step_result_custom and _add_step_result: append to report_data["steps"]
add_step_result(rd, result) == [rd EXCEPT !.steps = Append(@, result)]

\* the overall_status _generate_and_print_final_report writes
OverallStatus(success) == IF success THEN STATUS_SUCCESS ELSE STATUS_FAILURE

\* mutation of CommitAttempted: the value _initialize_report wrote is kept
CommitAttempted_AsPlanned(commit_planned, steps) == commit_planned

\* the commit_attempted _generate_and_print_final_report writes
CommitAttempted(commit_planned, steps) ==
    commit_planned /\ \E i \in 1..Len(steps) : steps[i] = "commit_changes"

\* _generate_and_print_final_report: the report data as finalized and printed
\* (its rendering by the report generator is outside the model)
final_report(rd, success, commit_planned, steps) ==
    [rd EXCEPT !.overall_status = OverallStatus(success),
               !.commit_attempted = CommitAttempted(commit_planned, steps)]

\* mutation of ExitStatus: the run always exits 0
ExitStatus_AlwaysZero(success) == EXIT_OK

\* run(): sys.exit(0 if self._overall_success else 1)
ExitStatus(success) == IF success THEN EXIT_OK ELSE EXIT_RUN_FAILURE

\* mutations of the skip rules: the flag is not consulted
SkipPrecommit_Never(step_name, ro) == FALSE
SkipCommit_Never(step_name, commit_planned) == FALSE

\* run(): the flag rules that skip a step without calling it
SkipPrecommit(step_name, ro) == step_name = "run_precommit" /\ ro
SkipCommit(step_name, commit_planned) ==
    step_name = "commit_changes" /\ ~commit_planned
SkipReason(ro, nc) ==
    IF ro THEN "Skipped: --review-only active."
    ELSE IF nc THEN "Skipped: --no-commit active."
    ELSE "Skipped: Commit not planned."

\* run(): the producer whose recorded details a step is given
Producer(step_name) ==
    CASE step_name = "generate_tests" -> "extract_signatures"
      [] step_name = "save_tests" -> "generate_tests"
      [] step_name = "execute_tests" -> "save_tests"
      [] OTHER -> "none"

\* mutation of dependency_arg: every step is called without a dependency
dependency_arg_None(step_name, outputs) == NoDetails

\* run(): dependency_arg = step_outputs.get(producer, {}).get('details')
dependency_arg(step_name, outputs) ==
    IF Producer(step_name) = "none" THEN NoDetails ELSE outputs[Producer(step_name)]

\* _execute_step: whether a step is skipped because the run has already failed
SkipAfterFailure(name, success) == ~success /\ name # "generate_report"

\* _execute_step: the status and error message recorded for a result of the
\* step function
RecordedStatus(r) == IF r.raised = "none" THEN r.status ELSE STATUS_FAILURE
RecordedError(r) ==
    IF r.raised = "none" THEN "None"
    ELSE IF r.raised \in ScribeErrors THEN r.raised
    ELSE "Unexpected"

\* mutation of SuccessAfter: a FAILURE result leaves _overall_success as it was
SuccessAfter_Unchanged(status, success) == success

\* _execute_step: _overall_success after a result of this status was recorded
SuccessAfter(status, success) == IF status = STATUS_FAILURE THEN FALSE ELSE success

\* mutations of StepPassed: every step passes; only a SUCCESS passes
StepPassed_Always(status) == TRUE
StepPassed_OnlySuccess(status) == status = STATUS_SUCCESS

\* _execute_step: the value returned to run(), which halts the loop on False
StepPassed(status) == status # STATUS_FAILURE

\* mutation of Caught: no except clause for exceptions that are no ScribeError
Caught_OnlyScribeError(exc) == exc \in ScribeErrors

\* _execute_step: an exception of the step function is caught by
\* `except ScribeError` or, any other, by `except Exception`
Caught(exc) == exc \in ScribeErrors \/ exc = "Exception"

\* _execute_step(name, step_func, step_outputs, dependency): every way the call
\* can end.  returned is its return value, propagated an exception that leaves
\* it; the other fields are the state it leaves: _overall_success, the appended
\* result, step_outputs, the agent state the step wrote, the commands the step
\* issued, the step functions called with what they raised, the requests made
execute_step(name, outputs, w, cfg, git, success) ==
    IF SkipAfterFailure(name, success)
    THEN { [returned |-> TRUE, propagated |-> "none", success |-> success,
            outputs |-> outputs,
            w |-> [w EXCEPT !.report_data = add_step_result(@,
                       StepResult(name, STATUS_SKIPPED,
                                  "Skipped due to prior failure.", "None"))],
            cmds |-> <<>>, called |-> <<>>, dependency |-> <<>>, raised |-> <<>>,
            api |-> <<>>] }
    ELSE { IF r.raised # "none" /\ ~Caught(r.raised)
           THEN [returned |-> FALSE, propagated |-> r.raised, success |-> success,
                 outputs |-> outputs, w |-> r.w, cmds |-> r.cmds,
                 called |-> <<name>>,
                 dependency |-> <<dependency_arg(name, outputs)>>,
                 raised |-> <<r.raised>>, api |-> r.api]
           ELSE LET status == RecordedStatus(r)
                IN  [returned |-> StepPassed(status), propagated |-> "none",
                     success |-> SuccessAfter(status, success),
                     outputs |-> IF r.raised = "none"
                                 THEN [outputs EXCEPT
                                          ![name] = Details(r.message, r.raw_output)]
                                 ELSE outputs,
                     w |-> [r.w EXCEPT !.report_data = add_step_result(@,
                                [StepResult(name, status, r.message, RecordedError(r))
                                 EXCEPT !.return_code = r.return_code])],
                     cmds |-> r.cmds, called |-> <<name>>,
                     dependency |-> <<dependency_arg(name, outputs)>>,
                     raised |-> <<r.raised>>, api |-> r.api]
           : r \in step_func(name, dependency_arg(name, outputs), w, cfg, git) }

\* mutation of ReviewOnlyStop: the loop goes on after review_code
ReviewOnlyStop_Never(step_name, ro) == FALSE

\* run(): the review-only short-circuit after a step has been executed
ReviewOnlyStop(step_name, ro) == step_name = "review_code" /\ ro

----------------------------------------------------------------------------
(* LEMSServiceMVP (src/aci_v2/lems_mvp/service.py): the service that keeps the
   primary Ollama endpoint.  A configuration is what acls.get_config returns
   for the key of the service: nothing, a value that is no dict, or a dict *)
NoConfig ==
    [kind |-> "none", provider_type |-> "", base_url |-> "", model_name |-> "",
     last_test_status |-> ""]

MalformedConfig == [NoConfig EXCEPT !.kind = "malformed"]

\* the dict configure_primary_ollama_endpoint builds
OllamaConfig(base_url, model_name) ==
    [kind |-> "dict", provider_type |-> "ollama", base_url |-> base_url,
     model_name |-> model_name, last_test_status |-> "UNTESTED"]

\* the arguments of configure_primary_ollama_endpoint, the empty string among
\* them
BaseUrls == {"", "http://a", "http://b"}
ModelNames == {"", "m1", "m2"}

\* what the store holds under the key when the service is constructed
Stores ==
    { NoConfig, MalformedConfig, OllamaConfig("http://a", "m1"),
      [OllamaConfig("http://a", "m1") EXCEPT !.provider_type = "other"] }

\* most Ollama clients instantiated by one service object
MaxClients == 3

\* _active_llm_client is None
NoClient == 0

\* the outcome of a call: the exception raised, or the value returned (the
\* flag of a (bool, message) pair, the client and model of a (client, model)
\* pair)
CallOutcome(op, exc, ok, client, model_name) ==
    [op |-> op, raised |-> exc, ok |-> ok, client |-> client,
     model_name |-> model_name]

NoCallOutcome == CallOutcome("none", "none", FALSE, NoClient, "")

\* no service object
NoService ==
    [acls |-> NoConfig, active_llm_client |-> NoClient,
     active_llm_config |-> NoConfig, clients |-> 0, configured_at |-> 0,
     result |-> NoCallOutcome]

\* _load_config_from_acls: the dict, or None for a missing or malformed value
load_config_from_acls(acls) == IF acls.kind = "dict" THEN acls ELSE NoConfig

\* __init__: no client, the configuration loaded from the store.  clients
\* counts the clients the object has instantiated (they are numbered from 1),
\* configured_at is that count at the latest successful
\* configure_primary_ollama_endpoint
LEMSServiceMVP(acls) ==
    [acls |-> acls, active_llm_client |-> NoClient,
     active_llm_config |-> load_config_from_acls(acls), clients |-> 0,
     configured_at |-> 0, result |-> NoCallOutcome]

\* mutation of configured: the cached client is kept
configured_KeepsClient(s, config_data) ==
    [s EXCEPT !.active_llm_config = config_data]

\* configure_primary_ollama_endpoint after _save_config_to_acls returned True
configured(s, config_data) ==
    [s EXCEPT !.active_llm_client = NoClient, !.active_llm_config = config_data]

\* configure_primary_ollama_endpoint(base_url, model_name); saved is whether
\* acls.set_config went through
configure_primary_ollama_endpoint(s, base_url, model_name, saved) ==
    LET op == "configure_primary_ollama_endpoint"
        config_data == OllamaConfig(base_url, model_name)
    IN  IF base_url = "" \/ model_name = ""
        THEN [s EXCEPT !.result = CallOutcome(op, "ValueError", FALSE, NoClient, "")]
        ELSE IF saved
        THEN [configured([s EXCEPT !.acls = config_data], config_data)
                 EXCEPT !.configured_at = s.clients,
                        !.result = CallOutcome(op, "none", TRUE, NoClient, "")]
        ELSE [s EXCEPT !.result = CallOutcome(op, "none", FALSE, NoClient, "")]

\* get_active_llm_client_and_model(); built is whether ollama.Client(...)
\* returned
get_active_llm_client_and_model(s, built) ==
    LET op == "get_active_llm_client_and_model"
        active_config == load_config_from_acls(s.acls)
    IN  IF s.active_llm_client # NoClient /\ s.active_llm_config.kind = "dict"
        THEN [s EXCEPT !.result = CallOutcome(op, "none", TRUE, s.active_llm_client,
                                          s.active_llm_config.model_name)]
        ELSE IF active_config.kind # "dict" \/ active_config.provider_type # "ollama"
        THEN [s EXCEPT !.active_llm_client = NoClient,
                       !.active_llm_config = NoConfig,
                       !.result = CallOutcome(op, "Exception", FALSE, NoClient, "")]
        ELSE IF built
        THEN [s EXCEPT !.active_llm_config = active_config,
                       !.clients = s.clients + 1,
                       !.active_llm_client = s.clients + 1,
                       !.result = CallOutcome(op, "none", TRUE, s.clients + 1,
                                          active_config.model_name)]
        ELSE [s EXCEPT !.active_llm_config = active_config,
                       !.active_llm_client = NoClient,
                       !.result = CallOutcome(op, "Exception", FALSE, NoClient, "")]

\* test_configured_ollama_connection(): the status of the test is written to
\* the stored configuration when the save goes through
test_configured_ollama_connection(s, success, saved) ==
    LET op == "test_configured_ollama_connection"
        active_config == load_config_from_acls(s.acls)
        tested == [active_config EXCEPT !.last_test_status =
                       IF success THEN "OK" ELSE "ERROR"]
    IN  IF active_config.kind # "dict" \/ active_config.provider_type # "ollama"
        THEN [s EXCEPT !.result = CallOutcome(op, "none", FALSE, NoClient, "")]
        ELSE [s EXCEPT !.acls = IF saved THEN tested ELSE @,
                       !.result = CallOutcome(op, "none", success, NoClient, "")]

----------------------------------------------------------------------------
(* The process *)

\* the keys of the configuration the pipeline reads
Config(steps, lint, mypy, tests, retries) ==
    [validation_steps |-> steps, fail_on_lint_critical |-> lint,
     fail_on_mypy_error |-> mypy, fail_on_test_failure |-> tests,
     ollama_api_retries |-> retries]

\* _get_default_config: "ollama_api_retries": 2
DEFAULT_API_RETRIES == 2

\* the configurations a run starts from: a validation_steps list of up to
\* MaxSteps names, or a value that is no list; the other keys at their defaults
Configurations ==
    { Config([is_list |-> TRUE, items |-> l], TRUE, TRUE, TRUE, DEFAULT_API_RETRIES)
      : l \in SeqsUpTo(StepUniverse, MaxSteps) }
    \cup { Config([is_list |-> FALSE, items |-> <<>>], TRUE, TRUE, TRUE,
                  DEFAULT_API_RETRIES) }

\* lists of up to MaxSteps names out of EnvStepUniverse, the other keys at
\* their defaults
EnvConfigurations ==
    { Config([is_list |-> TRUE, items |-> l], TRUE, TRUE, TRUE, DEFAULT_API_RETRIES)
      : l \in SeqsUpTo(EnvStepUniverse, MaxSteps) }

\* ChainTemplate with any of its steps taken out, the three strictness flags
\* all on or all off, and up to MaxRetries retries
ChainConfigurations ==
    { Config([is_list |-> TRUE,
              items |-> SelectSeq(ChainTemplate, LAMBDA n : n \in S)],
             strict, strict, strict, retries)
      : S \in SUBSET Range(ChainTemplate), strict \in BOOLEAN,
        retries \in 0..MaxRetries }

\* DependencyTemplate with any of its entries taken out, the other keys at
\* their defaults
DependencyConfigurations ==
    { Config([is_list |-> TRUE,
              items |-> [i \in 1..Cardinality(S) |->
                            DependencyTemplate[
                                CHOOSE k \in S :
                                    Cardinality({ j \in S : j < k }) = i - 1]]],
             TRUE, TRUE, TRUE, DEFAULT_API_RETRIES)
      : S \in SUBSET (1..Len(DependencyTemplate)) }

validation_steps == get_list(config.validation_steps)

World ==
    [file_paths |-> file_paths, env_manager |-> env_manager,
     report_data |-> report_data, environment |-> environment]

\* no method is called on its own
NoCall == [op |-> "none", input |-> <<>>, result |-> <<>>]

\* the process after _parse_arguments and the flag assignments that open
\* __init__, before the collaborators are constructed.  The attributes the try
\* block of __init__ assigns (git_exe, _overall_success, the paths, _report_data)
\* do not exist yet; they hold the values Construct overwrites or a None.
InitOf(arguments, configurations) ==
    /\ pc = "construct"
    /\ call = NoCall
    /\ lems = NoService
    /\ args \in arguments
    /\ review_only = args.review_only
    /\ no_commit = args.no_commit
    /\ do_commit = EffectiveCommit(args.review_only, args.no_commit, args.commit)
    /\ config \in configurations
    /\ git_exe = FALSE
    /\ overall_success = TRUE
    /\ file_paths = [source |-> FALSE, target |-> FALSE]
    /\ env_manager = [venv |-> "unknown", python_path |-> FALSE, pip_path |-> FALSE]
    /\ report_data = NoReportData
    /\ step_outputs = [n \in WorkflowSteps |-> NoDetails]
    /\ step_index = 0
    /\ environment = [backend |-> "unknown", http_lib |-> "unknown",
                      manifests |-> "unknown", porcelain |-> "unknown",
                      target_dir |-> "unknown", git |-> "unknown",
                      inputs |-> "unknown", audit_tool |-> "unknown",
                      git_results |-> <<>>, venv_found |-> "unknown"]
    /\ invoked = <<>>
    /\ dependency_args = <<>>
    /\ raised = <<>>
    /\ api_calls = <<>>
    /\ commands = <<>>
    /\ printed = <<>>
    /\ exit_code = NOT_EXITED

InitWith(configurations) == InitOf(ArgumentSets, configurations)

Init == InitWith(Configurations)

\* the target directory of the command line, as _validate_target_dir finds it
TargetDirs == {"valid", "missing", "not_a_directory", "outside_allowed_bases"}

\* _validate_target_dir: what it raises; every failure, the FileNotFoundError
\* of resolve(strict=True) included, leaves it as ScribeInputError
validate_target_dir(target_dir) ==
    IF target_dir = "valid" THEN "none" ELSE "ScribeInputError"

\* the git binary, as ToolRunner._find_executable("git") finds it
GitLookups == {"found", "not_found"}

\* mutation of find_git_executable: the FileNotFoundError is not caught
find_git_executable_Uncaught(git) ==
    [git_exe |-> git = "found",
     raised |-> IF git = "found" THEN "none" ELSE "FileNotFoundError"]

\* _find_git_executable: the path as a string, or None when the lookup raised
\* FileNotFoundError
find_git_executable(git) == [git_exe |-> git = "found", raised |-> "none"]

\* __init__, the except clauses: the minimal report is printed, sys.exit(2)
ConstructFails(error_msg) ==
    /\ printed' = print_report(printed, minimal_error_report(do_commit, error_msg))
    /\ exit_code' = EXIT_INIT_FAILURE
    /\ pc' = "exited"
    /\ UNCHANGED <<git_exe, overall_success, report_data>>

\* the message of the except clause that catches exc
InitErrorMessage(exc) ==
    IF exc \in ScribeErrors THEN "Initialization ScribeError"
    ELSE "Unexpected Initialization Error"

\* __init__, the try block, in its order: ScribeConfig, _validate_target_dir,
\* the environment manager, the model client and the report generator, the
\* lookup of git, the report data.  A ScribeError or an unexpected error in it
\* prints the minimal report and exits 2
Construct ==
    /\ pc = "construct"
    /\ \/ /\ \E exc \in {"ScribeConfigurationError", "Exception"} :
                ConstructFails(InitErrorMessage(exc))
          /\ UNCHANGED environment
       \/ \E td \in TargetDirs :
             /\ validate_target_dir(td) # "none"
             /\ environment' = [environment EXCEPT !.target_dir = td]
             /\ ConstructFails(InitErrorMessage(validate_target_dir(td)))
       \/ \E td \in TargetDirs :
             /\ validate_target_dir(td) = "none"
             /\ environment' = [environment EXCEPT !.target_dir = td]
             /\ ConstructFails(InitErrorMessage("Exception"))
       \/ \E td \in TargetDirs, git \in GitLookups :
             /\ validate_target_dir(td) = "none"
             /\ environment' = [environment EXCEPT !.target_dir = td, !.git = git]
             /\ IF find_git_executable(git).raised # "none"
                THEN ConstructFails(InitErrorMessage(find_git_executable(git).raised))
                ELSE /\ git_exe' = find_git_executable(git).git_exe
                     /\ overall_success' = TRUE
                     /\ report_data' = initialize_report(do_commit)
                     /\ pc' = "run"
                     /\ UNCHANGED <<printed, exit_code>>
    /\ UNCHANGED <<call, lems, dependency_args, args, review_only, no_commit, do_commit,
                   config, file_paths,
                   env_manager, step_outputs, step_index, invoked,
                   raised, api_calls, commands>>

\* mutation of RunBegin: no check for an empty step list, the for loop simply
\* has nothing to iterate over
RunBegin_NoEmptyCheck ==
    /\ pc = "run"
    /\ step_index' = 1
    /\ pc' = IF validation_steps = <<>> THEN "report" ELSE "loop"
    /\ UNCHANGED <<call, lems, dependency_args, args, review_only, no_commit, do_commit,
                   config, git_exe,
                   overall_success, file_paths, env_manager, report_data,
                   step_outputs, environment, invoked, raised, api_calls,
                   commands, printed, exit_code>>

\* run(), up to the loop: an empty or unset step list fails the run at once
RunBegin ==
    /\ pc = "run"
    /\ IF validation_steps = <<>>
       THEN LET rd == add_step_result(report_data,
                          StepResult("pipeline_setup", STATUS_FAILURE,
                                     "Critical: Validation steps not configured in ScribeConfig.",
                                     "Validation steps missing."))
                report == final_report(rd, FALSE, do_commit, validation_steps)
            IN  /\ overall_success' = FALSE
                /\ report_data' = report
                /\ printed' = print_report(printed, report)
                /\ exit_code' = EXIT_RUN_FAILURE
                /\ pc' = "exited"
                /\ UNCHANGED step_index
       ELSE /\ step_index' = 1
            /\ pc' = "loop"
            /\ UNCHANGED <<overall_success, report_data, printed, exit_code>>
    /\ UNCHANGED <<call, lems, dependency_args, args, review_only, no_commit, do_commit,
                   config, git_exe,
                   file_paths, env_manager, step_outputs, environment, invoked,
                   raised, api_calls, commands>>

\* the for loop moves to the next configured step, or ends
Continue ==
    /\ step_index' = step_index + 1
    /\ pc' = IF step_index + 1 > Len(validation_steps) THEN "report" ELSE "loop"

\* mutation of Break: the loop goes on with the next step
Break_Continues ==
    /\ step_index' = step_index + 1
    /\ pc' = IF step_index + 1 > Len(validation_steps) THEN "report" ELSE "loop"

\* the for loop is left by break
Break ==
    /\ pc' = "report"
    /\ UNCHANGED step_index

\* loop body: the step name is no callable of WorkflowSteps.  (The check before
\* it, that _workflow exists, cannot fail once Construct has succeeded.)
InvalidStep ==
    /\ pc = "loop"
    /\ ~IsStep(validation_steps[step_index])
    /\ overall_success' = FALSE
    /\ report_data' = add_step_result(report_data,
                          StepResult(validation_steps[step_index], STATUS_FAILURE,
                                     "Invalid step in configuration.", "Invalid step"))
    /\ Break
    /\ UNCHANGED <<call, lems, dependency_args, args, review_only, no_commit, do_commit,
                   config, git_exe,
                   file_paths, env_manager, step_outputs, environment, invoked,
                   raised, api_calls, commands, printed, exit_code>>

\* loop body: run_precommit under --review-only is recorded SKIPPED
SkipPrecommitStep ==
    /\ pc = "loop"
    /\ IsStep(validation_steps[step_index])
    /\ SkipPrecommit(validation_steps[step_index], review_only)
    /\ report_data' = add_step_result(report_data,
                          StepResult(validation_steps[step_index], STATUS_SKIPPED,
                                     "Skipped: --review-only active.", "None"))
    /\ Continue
    /\ UNCHANGED <<call, lems, dependency_args, args, review_only, no_commit, do_commit,
                   config, git_exe,
                   overall_success, file_paths, env_manager, step_outputs,
                   environment, invoked, raised, api_calls, commands,
                   printed, exit_code>>

\* loop body: commit_changes without an effective commit is recorded SKIPPED
SkipCommitStep ==
    /\ pc = "loop"
    /\ IsStep(validation_steps[step_index])
    /\ ~SkipPrecommit(validation_steps[step_index], review_only)
    /\ SkipCommit(validation_steps[step_index], do_commit)
    /\ report_data' = [add_step_result(report_data,
                           StepResult(validation_steps[step_index], STATUS_SKIPPED,
                                      SkipReason(review_only, no_commit), "None"))
                       EXCEPT !.commit_attempted = FALSE]
    /\ Continue
    /\ UNCHANGED <<call, lems, dependency_args, args, review_only, no_commit, do_commit,
                   config, git_exe,
                   overall_success, file_paths, env_manager, step_outputs,
                   environment, invoked, raised, api_calls, commands,
                   printed, exit_code>>

\* loop body: the step is executed; a failed step breaks the loop, and so does
\* review_code under --review-only; an exception that leaves _execute_step
\* leaves run() as well, before any report
ExecuteStep ==
    /\ pc = "loop"
    /\ IsStep(validation_steps[step_index])
    /\ ~SkipPrecommit(validation_steps[step_index], review_only)
    /\ ~SkipCommit(validation_steps[step_index], do_commit)
    /\ \E e \in execute_step(validation_steps[step_index], step_outputs, World,
                             config, git_exe, overall_success) :
          /\ step_outputs' = e.outputs
          /\ file_paths' = e.w.file_paths
          /\ env_manager' = e.w.env_manager
          /\ report_data' = e.w.report_data
          /\ environment' = e.w.environment
          /\ invoked' = invoked \o e.called
          /\ dependency_args' = dependency_args \o e.dependency
          /\ raised' = raised \o e.raised
          /\ api_calls' = api_calls \o e.api
          /\ commands' = commands \o e.cmds
          /\ IF e.propagated # "none"
             THEN /\ overall_success' = e.success
                  /\ pc' = "crashed"
                  /\ UNCHANGED step_index
             ELSE IF ~e.returned
             THEN overall_success' = e.success /\ Break
             ELSE IF ReviewOnlyStop(validation_steps[step_index], review_only)
             THEN /\ overall_success' =
                        IF e.w.report_data.steps[Len(e.w.report_data.steps)].status
                               = STATUS_FAILURE
                        THEN FALSE ELSE e.success
                  /\ Break
             ELSE overall_success' = e.success /\ Continue
    /\ UNCHANGED <<call, lems, args, review_only, no_commit, do_commit, config,
                   git_exe, printed, exit_code>>

\* after the loop: the final report is printed and the process exits
Finish ==
    /\ pc = "report"
    /\ report_data' = final_report(report_data, overall_success, do_commit,
                                   validation_steps)
    /\ printed' = print_report(printed, report_data')
    /\ exit_code' = ExitStatus(overall_success)
    /\ pc' = "exited"
    /\ UNCHANGED <<call, lems, dependency_args, args, review_only, no_commit, do_commit,
                   config, git_exe,
                   overall_success, file_paths, env_manager, step_outputs,
                   step_index, environment, invoked, raised, api_calls,
                   commands>>

Next ==
    \/ Construct
    \/ RunBegin
    \/ InvalidStep
    \/ SkipPrecommitStep
    \/ SkipCommitStep
    \/ ExecuteStep
    \/ Finish

Spec == Init /\ [][Next]_vars

\* the same process started from configurations that set up the environment,
\* install the dependencies and format the code
InitEnv == InitOf(PlainOrReviewOnly, EnvConfigurations)
SpecEnv == InitEnv /\ [][Next]_vars

\* the same process started from configurations that take steps out of the
\* check-and-test chain, with the strictness flags on or off and a configured
\* retry count
InitChain == InitOf(PlainOrReviewOnly, ChainConfigurations)
SpecChain == InitChain /\ [][Next]_vars

\* the same process started from configurations that take steps out of the
\* chain of steps that hand their details to one another
InitDependencies == InitOf(PlainOrReviewOnly, DependencyConfigurations)
SpecDependencies == InitDependencies /\ [][Next]_vars

----------------------------------------------------------------------------
(* LLMClient._extract_code_from_response.  A response is a sequence of
   tokens: "F" is a fence of three backquotes, "py" the word python in any
   case, "js" another word of letters, "nl" a newline, "sp" a blank, "x" and
   "y" a statement each (x = 1), which has characters no tag has *)
FENCE == "F"
NEWLINE == "nl"
WhiteSpace == {"nl", "sp"}

\* the characters of [a-zA-Z0-9_.-]* in the pattern for a fence of any tag
TagTokens == {"py", "js"}

\* the join string "\n\n# Scribe: Concatenated Block\n\n"
SEPARATOR == <<"nl", "nl", "# Scribe: Concatenated Block", "nl", "nl">>

RECURSIVE lstrip(_)
lstrip(s) ==
    IF s # <<>> /\ Head(s) \in WhiteSpace THEN lstrip(Tail(s)) ELSE s

RECURSIVE rstrip(_)
rstrip(s) ==
    IF s # <<>> /\ s[Len(s)] \in WhiteSpace
    THEN rstrip(SubSeq(s, 1, Len(s) - 1)) ELSE s

\* str.strip()
strip(s) == rstrip(lstrip(s))

\* str.join over the stripped blocks
RECURSIVE join(_, _)
join(sep, blocks) ==
    IF blocks = <<>> THEN <<>>
    ELSE IF Len(blocks) = 1 THEN blocks[1]
    ELSE blocks[1] \o sep \o join(sep, Tail(blocks))

\* the positions from i on at which "\n```" starts
Closings(s, i) ==
    { j \in i..(Len(s) - 1) : s[j] = NEWLINE /\ s[j + 1] = FENCE }

\* the number of tag tokens from position i on, all of which [a-zA-Z0-9_.-]*
\* takes
RECURSIVE TagLength(_, _)
TagLength(s, i) ==
    IF i <= Len(s) /\ s[i] \in TagTokens THEN 1 + TagLength(s, i + 1) ELSE 0

\* the position after the opening of a block at i: "```python\n" for the
\* pattern of python blocks, "```" with any tag or none and "\n" for the
\* pattern of generic blocks; 0 when no block opens at i
Opening(s, i, python) ==
    IF s[i] # FENCE THEN 0
    ELSE IF python
         THEN IF i + 2 <= Len(s) /\ s[i + 1] = "py" /\ s[i + 2] = NEWLINE
              THEN i + 3 ELSE 0
         ELSE LET k == TagLength(s, i + 1)
              IN IF i + 1 + k <= Len(s) /\ s[i + 1 + k] = NEWLINE
                 THEN i + 2 + k ELSE 0

\* re.findall(pattern, llm_resp, re.DOTALL): the groups of the matches that
\* do not overlap, from left to right, each the shortest from its opening
RECURSIVE findall(_, _, _)
findall(s, i, python) ==
    IF i > Len(s) THEN <<>>
    ELSE LET from == Opening(s, i, python)
         IN IF from = 0 \/ Closings(s, from) = {}
            THEN findall(s, i + 1, python)
            ELSE LET j == CHOOSE c \in Closings(s, from) :
                              \A d \in Closings(s, from) : c <= d
                 IN <<SubSeq(s, from, j - 1)>> \o findall(s, j + 2, python)

\* LLMClient._extract_code_from_response(llm_resp)
extract_code_from_response(llm_resp) ==
    LET py_blocks == findall(llm_resp, 1, TRUE)
        gen_blocks == findall(llm_resp, 1, FALSE)
    IN IF py_blocks # <<>>
       THEN strip(join(SEPARATOR,
                       [b \in DOMAIN py_blocks |-> strip(py_blocks[b])]))
       ELSE IF gen_blocks # <<>> THEN strip(gen_blocks[1])
       ELSE strip(llm_resp)

\* the responses the method is called on: up to MaxSegments segments, each on
\* lines of its own.  A segment is prose or a fenced block: its opening fence
\* with the tag "python", another tag or none, its lines, its closing fence
MaxSegments == 3

Lines ==
    { <<>>, <<"x", "nl">>, <<"sp", "y", "sp", "nl">>, <<"nl">>,
      <<"x", "nl", "y", "nl">> }

Segments ==
    [kind : {"python", "other", "untagged"}, body : Lines]
        \cup [kind : {"prose"}, body : {<<"x">>, <<"sp", "y", "sp">>}]

Responses == UNION { [1..n -> Segments] : n \in 0..MaxSegments }

\* the text of a segment
SegmentText(g) ==
    CASE g.kind = "python" -> <<FENCE, "py", NEWLINE>> \o g.body \o <<FENCE>>
      [] g.kind = "other" -> <<FENCE, "js", NEWLINE>> \o g.body \o <<FENCE>>
      [] g.kind = "untagged" -> <<FENCE, NEWLINE>> \o g.body \o <<FENCE>>
      [] OTHER -> g.body

\* the text of a response
RECURSIVE ResponseText(_)
ResponseText(segments) ==
    IF segments = <<>> THEN <<>>
    ELSE IF Len(segments) = 1 THEN SegmentText(segments[1])
    ELSE SegmentText(segments[1]) \o <<NEWLINE>> \o ResponseText(Tail(segments))

----------------------------------------------------------------------------
(* LLMClient.generate_review: the findings read out of the response.  A
   response is blank, text that is no JSON, or a JSON array, object or
   scalar; an element of an array is an object with some keys, all of one
   string value, or no object *)
FindingKeys == {"severity", "description", "location"}

MaxItems == 3

KeySets ==
    { FindingKeys, FindingKeys \cup {"cwe"}, FindingKeys \ {"severity"},
      FindingKeys \ {"description"}, FindingKeys \ {"location"}, {} }

Items ==
    [is_object : {TRUE}, keys : KeySets, value : {<<"x">>, <<"sp", "y", "sp">>}]
        \cup [is_object : {FALSE}, keys : {{}}, value : {<<"x">>}]

Documents ==
    [shape : {"blank", "not_json", "scalar"}, items : {<<>>}]
        \cup [shape : {"object"},
              items : { <<i>> : i \in { j \in Items : j.is_object } }]
        \cup [shape : {"array"},
              items : UNION { [1..n -> Items] : n \in 0..MaxItems }]

\* isinstance(item, dict) and all(k in item for k in [...])
WellFormed(item) == item.is_object /\ FindingKeys \subseteq item.keys

\* {k: str(item[k]).strip() for k in [...]}
Finding(item) == [k \in FindingKeys |-> strip(item.value)]

\* the value of the method: None, or a list of findings
NoFindings == [none |-> TRUE, findings |-> <<>>]
Findings(list) == [none |-> FALSE, findings |-> list]

\* the valid items of a list, in order
RECURSIVE valid(_)
valid(findings) ==
    IF findings = <<>> THEN <<>>
    ELSE IF WellFormed(Head(findings))
         THEN <<Finding(Head(findings))>> \o valid(Tail(findings))
         ELSE valid(Tail(findings))

\* the lines after the request: a blank response is no finding, text that
\* json.loads refuses is None, a single dict with the three keys is wrapped,
\* anything else that is no list is None
parse_findings(doc) ==
    CASE doc.shape = "blank" -> Findings(<<>>)
      [] doc.shape = "not_json" -> NoFindings
      [] doc.shape = "scalar" -> NoFindings
      [] doc.shape = "object" ->
            IF WellFormed(doc.items[1]) THEN Findings(valid(doc.items))
            ELSE NoFindings
      [] OTHER -> Findings(valid(doc.items))

\* generate_review(code, file_name) with a backend that answers doc: the
\* request is made with a keyword _call_api does not take, the TypeError is
\* caught by the last except clause
generate_review(doc) ==
    IF ~CallApiAccepts("output_format_type") THEN NoFindings
    ELSE parse_findings(doc)

----------------------------------------------------------------------------
(* Methods called on their own *)
\* ToolRunner called on its own: an executable name resolved, a command run
ToolRunnerCalls ==
    { [op |-> o,
       input |-> [override |-> ov, venv |-> vd, on_path |-> w, process |-> p],
       result |-> <<>>]
      : o \in {"find_executable", "run_tool"}, ov \in Overrides, vd \in VenvDirs,
        w \in BOOLEAN, p \in Processes }

\* LLMClient._extract_code_from_response called on its own
ExtractCalls ==
    { [op |-> "extract_code", input |-> r, result |-> <<>>] : r \in Responses }

\* LLMClient.generate_review called on its own, the backend answering a
\* document
ReviewCalls ==
    { [op |-> "generate_review", input |-> d, result |-> <<>>] : d \in Documents }

\* a process in which one method of a collaborator is called: the agent's own
\* state is that of a command line without flags and never moves
\* the agent before anything has run: the variables of a process that only
\* calls methods on their own
AgentAtRest ==
    /\ args \in { a \in PlainOrReviewOnly : ~a.review_only }
    /\ review_only = args.review_only
    /\ no_commit = args.no_commit
    /\ do_commit = EffectiveCommit(args.review_only, args.no_commit, args.commit)
    /\ config = Config([is_list |-> TRUE, items |-> <<>>], TRUE, TRUE, TRUE,
                       DEFAULT_API_RETRIES)
    /\ git_exe = FALSE
    /\ overall_success = TRUE
    /\ file_paths = [source |-> FALSE, target |-> FALSE]
    /\ env_manager = [venv |-> "unknown", python_path |-> FALSE, pip_path |-> FALSE]
    /\ report_data = NoReportData
    /\ step_outputs = [n \in WorkflowSteps |-> NoDetails]
    /\ step_index = 0
    /\ environment = [backend |-> "unknown", http_lib |-> "unknown",
                      manifests |-> "unknown", porcelain |-> "unknown",
                      target_dir |-> "unknown", git |-> "unknown",
                      inputs |-> "unknown", audit_tool |-> "unknown",
                      git_results |-> <<>>, venv_found |-> "unknown"]
    /\ invoked = <<>>
    /\ dependency_args = <<>>
    /\ raised = <<>>
    /\ api_calls = <<>>
    /\ commands = <<>>
    /\ printed = <<>>
    /\ exit_code = NOT_EXITED

InitCalls ==
    /\ pc = "call"
    /\ \/ call \in ToolRunnerCalls
       \/ call \in ExtractCalls
       \/ call \in ReviewCalls
    /\ lems = NoService
    /\ AgentAtRest

\* the agent's own variables
agent_vars ==
    <<args, review_only, no_commit, do_commit, config, git_exe, overall_success,
      file_paths, env_manager, report_data, step_outputs, step_index, environment,
      invoked, dependency_args, raised, api_calls, commands, printed, exit_code>>

\* ToolRunner._find_executable(name, venv_path)
FindExecutable ==
    /\ pc = "call"
    /\ call.op = "find_executable"
    /\ call' = [call EXCEPT !.result =
                    <<find_executable(call.input.override, call.input.venv,
                                      call.input.on_path)>>]
    /\ pc' = "returned"
    /\ UNCHANGED <<lems, agent_vars>>

\* ToolRunner.run_tool(command_args, cwd, venv_path)
RunTool ==
    /\ pc = "call"
    /\ call.op = "run_tool"
    /\ call' = [call EXCEPT !.result =
                    <<run_tool(Resolve(find_executable(call.input.override,
                                                       call.input.venv,
                                                       call.input.on_path),
                                       call.input.process))>>]
    /\ pc' = "returned"
    /\ UNCHANGED <<lems, agent_vars>>

\* LLMClient._extract_code_from_response(llm_resp)
ExtractCode ==
    /\ pc = "call"
    /\ call.op = "extract_code"
    /\ call' = [call EXCEPT !.result =
                    <<extract_code_from_response(ResponseText(call.input))>>]
    /\ pc' = "returned"
    /\ UNCHANGED <<lems, agent_vars>>

\* LLMClient.generate_review(code, file_name)
GenerateReview ==
    /\ pc = "call"
    /\ call.op = "generate_review"
    /\ call' = [call EXCEPT !.result = <<generate_review(call.input)>>]
    /\ pc' = "returned"
    /\ UNCHANGED <<lems, agent_vars>>

NextCalls ==
    \/ FindExecutable
    \/ RunTool
    \/ ExtractCode
    \/ GenerateReview

SpecCalls == InitCalls /\ [][NextCalls]_vars

----------------------------------------------------------------------------
(* The LEMS service called by its clients: one LEMSServiceMVP object over a
   configuration store, its three public methods called in any order *)
InitLems ==
    /\ pc = "service"
    /\ call = NoCall
    /\ lems \in { LEMSServiceMVP(acls) : acls \in Stores }
    /\ AgentAtRest

\* LEMSServiceMVP.configure_primary_ollama_endpoint(base_url, model_name)
ConfigurePrimaryOllamaEndpoint ==
    /\ pc = "service"
    /\ \E base_url \in BaseUrls, model_name \in ModelNames, saved \in BOOLEAN :
           lems' = configure_primary_ollama_endpoint(lems, base_url, model_name, saved)
    /\ UNCHANGED <<pc, call, agent_vars>>

\* LEMSServiceMVP.get_active_llm_client_and_model()
GetActiveLlmClientAndModel ==
    /\ pc = "service"
    /\ \E built \in BOOLEAN :
           /\ built => lems.clients < MaxClients
           /\ lems' = get_active_llm_client_and_model(lems, built)
    /\ UNCHANGED <<pc, call, agent_vars>>

\* LEMSServiceMVP.test_configured_ollama_connection()
TestConfiguredOllamaConnection ==
    /\ pc = "service"
    /\ \E success \in BOOLEAN, saved \in BOOLEAN :
           lems' = test_configured_ollama_connection(lems, success, saved)
    /\ UNCHANGED <<pc, call, agent_vars>>

NextLems ==
    \/ ConfigurePrimaryOllamaEndpoint
    \/ GetActiveLlmClientAndModel
    \/ TestConfiguredOllamaConnection

SpecLems == InitLems /\ [][NextLems]_vars

----------------------------------------------------------------------------
(* Properties *)

\* the names of the recorded step results, in order
RecordedNames == [i \in 1..Len(report_data.steps) |-> report_data.steps[i].name]

\* the process has exited from run(), after a successful construction
RunExited == pc = "exited" /\ exit_code # EXIT_INIT_FAILURE

\* the commands issued by the step taken in this transition
NewCommands == SubSeq(commands', Len(commands) + 1, Len(commands'))

\* C1: when the run has exited, for every position k whose result is FAILURE
\* and that is not the last configured step, every configured step after k
\* other than generate_report has a result, with status SKIPPED and the
\* message "Skipped due to prior failure."
C1_SkippedAfterFailure ==
    (RunExited /\ validation_steps # <<>>) =>
        \A k \in 1..Len(report_data.steps) :
            (report_data.steps[k].status = STATUS_FAILURE
             /\ k < Len(validation_steps)) =>
                \A j \in (k + 1)..Len(validation_steps) :
                    validation_steps[j] # "generate_report" =>
                        /\ j <= Len(report_data.steps)
                        /\ report_data.steps[j].name = validation_steps[j]
                        /\ report_data.steps[j].status = STATUS_SKIPPED
                        /\ report_data.steps[j].message = "Skipped due to prior failure."

\* C2: a step of the run issues `git commit` only if the effective commit
\* intent is true and no result recorded before that step has status FAILURE
C2_CommitOnlyIfValidated ==
    [][ "git commit" \in Range(NewCommands) =>
            /\ do_commit
            /\ overall_success
            /\ \A i \in 1..Len(report_data.steps) :
                   report_data.steps[i].status # STATUS_FAILURE ]_vars

\* C2, reached: a run has issued `git commit` and recorded the commit as SUCCESS
C2_Witness ==
    /\ "git commit" \in Range(commands)
    /\ report_data.steps[Len(report_data.steps)].name = "commit_changes"
    /\ report_data.steps[Len(report_data.steps)].status = STATUS_SUCCESS
    /\ report_data.commit_sha = "sha"

\* C3: in review-only mode run_precommit and commit_changes are never called,
\* and every result recorded under either name has status SKIPPED
C3_ReviewOnlyNeverCommits ==
    review_only =>
        /\ "run_precommit" \notin Range(invoked)
        /\ "commit_changes" \notin Range(invoked)
        /\ \A i \in 1..Len(report_data.steps) :
               report_data.steps[i].name \in {"run_precommit", "commit_changes"} =>
                   report_data.steps[i].status = STATUS_SKIPPED

\* C3, reached: a review-only run has exited with both steps recorded SKIPPED
C3_Witness ==
    /\ review_only
    /\ RunExited
    /\ \E i, j \in 1..Len(report_data.steps) :
           /\ report_data.steps[i].name = "run_precommit"
           /\ report_data.steps[i].status = STATUS_SKIPPED
           /\ report_data.steps[j].name = "commit_changes"
           /\ report_data.steps[j].status = STATUS_SKIPPED

ExpectedCommitIntent ==
    IF args.review_only THEN FALSE
    ELSE IF args.no_commit THEN FALSE
    ELSE IF args.commit_explicitly_true THEN TRUE
    ELSE ~args.commit_explicitly_false

\* C5: the effective commit intent is false under --review-only, else false
\* under --no-commit, else the explicit commit flag (true when not given), and
\* it never changes during the run
C5_EffectiveCommitIntent ==
    /\ [](do_commit = ExpectedCommitIntent)
    /\ [][do_commit' = do_commit /\ args' = args]_vars

\* C5, reached: a run without any of the flags has committed
C5_Witness ==
    /\ ~args.review_only /\ ~args.no_commit
    /\ ~args.commit_explicitly_true /\ ~args.commit_explicitly_false
    /\ do_commit
    /\ RunExited
    /\ "git commit" \in Range(commands)

\* C6: in every printed report, overall_status is SUCCESS exactly when no
\* entry of its step list has status FAILURE
C6_OverallStatusIffNoFailure ==
    \A p \in 1..Len(printed) :
        (printed[p].overall_status = STATUS_SUCCESS)
            <=> (\A i \in 1..Len(printed[p].steps) :
                     printed[p].steps[i].status # STATUS_FAILURE)

\* C6, reached: a report with a successful step followed by a failed one
C6_Witness ==
    /\ Len(printed) = 1
    /\ printed[1].overall_status = STATUS_FAILURE
    /\ Len(printed[1].steps) = 2
    /\ printed[1].steps[1].status = STATUS_SUCCESS
    /\ printed[1].steps[2].status = STATUS_FAILURE

\* C7: the exit status is 0 exactly when the overall status of the printed
\* report is SUCCESS, and non-zero otherwise
C7_ExitStatus ==
    pc = "exited" =>
        /\ exit_code \in {EXIT_OK, EXIT_RUN_FAILURE, EXIT_INIT_FAILURE}
        /\ Len(printed) > 0 =>
               ((exit_code = EXIT_OK)
                    <=> (printed[Len(printed)].overall_status = STATUS_SUCCESS))
        /\ Len(printed) = 0 => exit_code # EXIT_OK

\* C7, reached: a run of three steps has exited 0
C7_Witness ==
    /\ pc = "exited"
    /\ exit_code = EXIT_OK
    /\ Len(report_data.steps) = 3
    /\ report_data.overall_status = STATUS_SUCCESS

\* C8: whenever the process has exited, a report has been printed
C8_ReportBeforeExit == pc = "exited" => Len(printed) >= 1

\* C8, reached: construction failed and the minimal report was printed
C8_Witness ==
    /\ pc = "exited"
    /\ exit_code = EXIT_INIT_FAILURE
    /\ Len(printed) = 1
    /\ printed[1].steps[1].name = "initialization_failure"

\* C9: with an empty or unset step list the loop is never entered, no step
\* function is called, and the run exits non-zero after printing a report
\* with overall status FAILURE and exactly one step, of status FAILURE
C9_EmptyStepList ==
    validation_steps = <<>> =>
        /\ pc \notin {"loop", "report"}
        /\ invoked = <<>>
        /\ RunExited =>
               /\ exit_code # EXIT_OK
               /\ Len(printed) = 1
               /\ printed[1].overall_status = STATUS_FAILURE
               /\ Len(printed[1].steps) = 1
               /\ printed[1].steps[1].status = STATUS_FAILURE

\* C9, reached: a run whose validation_steps is not a list has exited
C9_Witness ==
    /\ ~config.validation_steps.is_list
    /\ RunExited
    /\ printed[1].steps[1].name = "pipeline_setup"

\* C10: while the loop runs every earlier position holds a step of
\* WorkflowSteps and has its result; once the result of a name that is no step
\* of WorkflowSteps is recorded it is a FAILURE under that name, the overall
\* status is failed, the loop has ended, nothing is recorded after it and no
\* step function is called from then on; recorded results are never changed
C10_InvalidStepHalts ==
    /\ [](pc = "loop" =>
              /\ Len(report_data.steps) = step_index - 1
              /\ \A j \in 1..(step_index - 1) : IsStep(validation_steps[j]))
    /\ [](\A i \in 1..Len(report_data.steps) :
              (i <= Len(validation_steps) /\ RecordedNames[i] = validation_steps[i]
               /\ ~IsStep(validation_steps[i])) =>
                  /\ report_data.steps[i].status = STATUS_FAILURE
                  /\ ~overall_success
                  /\ pc \in {"report", "exited"}
                  /\ Len(report_data.steps) = i
                  /\ Len(invoked) <= i - 1)
    /\ [][ /\ Len(report_data.steps') >= Len(report_data.steps)
           /\ \A i \in 1..Len(report_data.steps) :
                  report_data.steps'[i] = report_data.steps[i]
           /\ (pc \in {"report", "exited"} => invoked' = invoked) ]_vars

\* C10, reached: two steps ran, the third name is unknown, and the report
\* shows all three results
C10_Witness ==
    /\ RunExited
    /\ Len(printed[1].steps) = 3
    /\ printed[1].steps[3].name = "no_such_step"
    /\ printed[1].steps[3].status = STATUS_FAILURE
    /\ Len(invoked) = 2
    /\ printed[1].overall_status = STATUS_FAILURE

\* a result with status FAILURE has been recorded
HasFailure ==
    \E i \in 1..Len(report_data.steps) : report_data.steps[i].status = STATUS_FAILURE

\* the step functions called and the results recorded in this transition
NewInvoked == SubSeq(invoked', Len(invoked) + 1, Len(invoked'))
NewResults ==
    SubSeq(report_data'.steps, Len(report_data.steps) + 1, Len(report_data'.steps))

\* C11: once a result with status FAILURE is recorded, no step function other
\* than generate_report is called and no result is recorded under another
\* name than generate_report: later configured steps are not attempted
C11_NothingAfterFailure ==
    [][ HasFailure =>
            /\ \A n \in Range(NewInvoked) : n = "generate_report"
            /\ \A r \in Range(NewResults) : r.name = "generate_report" ]_vars

\* C11, reached: the first of three configured steps failed, and the run has
\* exited with that one call and that one result
C11_Witness ==
    /\ RunExited
    /\ Len(validation_steps) = 3
    /\ validation_steps[2] # "generate_report"
    /\ Len(report_data.steps) = 1
    /\ report_data.steps[1].status = STATUS_FAILURE
    /\ invoked = <<validation_steps[1]>>

\* C12: a call of a step function that raises, a ScribeError or any other
\* exception, is recorded in the same step as one result under the step's
\* name with status FAILURE and an error message, fails the run and ends the
\* loop; no exception leaves run(); from there the report is printed, and the
\* printed report holds the recorded results
C12_StepErrorsCaught ==
    /\ [](pc # "crashed" /\ Len(raised) = Len(invoked))
    /\ [][ (Len(raised') > Len(raised) /\ raised'[Len(raised')] # "none") =>
               /\ Len(NewResults) = 1
               /\ NewResults[1].name = invoked'[Len(invoked')]
               /\ NewResults[1].status = STATUS_FAILURE
               /\ NewResults[1].error_message # "None"
               /\ ~overall_success'
               /\ pc' = "report" ]_vars
    /\ [](pc = "report" => ENABLED Finish)
    /\ [](RunExited => /\ Len(printed) = 1
                       /\ printed[1].steps = report_data.steps)

\* C12, reached: the second step raised an exception that is no ScribeError,
\* and the run has exited 1 with the report showing it as FAILURE
C12_Witness ==
    /\ RunExited
    /\ raised = <<"none", "Exception">>
    /\ Len(printed[1].steps) = 2
    /\ printed[1].steps[2].status = STATUS_FAILURE
    /\ printed[1].steps[2].error_message = "Unexpected"
    /\ exit_code = EXIT_RUN_FAILURE

\* C13: in review-only mode a review_code result that is no FAILURE is the
\* last result and review_code the last call, and the loop has been left
C13_ReviewOnlyStopsAfterReview ==
    review_only =>
        \A i \in 1..Len(report_data.steps) :
            (report_data.steps[i].name = "review_code"
             /\ report_data.steps[i].status # STATUS_FAILURE) =>
                /\ i = Len(report_data.steps)
                /\ invoked[Len(invoked)] = "review_code"
                /\ pc \in {"report", "exited"}

\* C13, reached: a review-only run of three steps has exited 0 after the
\* review, its second step, with the third step neither called nor recorded
C13_Witness ==
    /\ review_only
    /\ RunExited /\ exit_code = EXIT_OK
    /\ RecordedNames = <<"validate_inputs", "review_code">>
    /\ report_data.steps[2].status = STATUS_ADVISORY
    /\ validation_steps = <<"validate_inputs", "review_code", "format_code">>
    /\ invoked = <<"validate_inputs", "review_code">>

\* C14: a step that records a result with status ADVISORY, WARNING or
\* SKIPPED leaves _overall_success as it was, and outside review-only mode the
\* loop moves to the next configured step (or ends, after the last one)
C14_NonBlockingStatuses ==
    [][ \A r \in Range(NewResults) :
            r.status \in {STATUS_ADVISORY, STATUS_WARNING, STATUS_SKIPPED} =>
                /\ overall_success' = overall_success
                /\ ~review_only =>
                       /\ step_index' = step_index + 1
                       /\ pc' = IF step_index' > Len(validation_steps)
                                THEN "report" ELSE "loop" ]_vars

\* C14, reached: a run without --review-only recorded ADVISORY for its second
\* step, WARNING or SKIPPED for its third, and exited 0
C14_Witness ==
    /\ ~review_only
    /\ RunExited /\ exit_code = EXIT_OK
    /\ Len(report_data.steps) = 3
    /\ report_data.steps[2].status = STATUS_ADVISORY
    /\ report_data.steps[3].status \in {STATUS_WARNING, STATUS_SKIPPED}
    /\ printed[1].overall_status = STATUS_SUCCESS

\* the steps that ask the inference backend
AISteps == {"generate_tests", "review_code"}

\* C15: when the backend refuses every request or answers with a body that is
\* no JSON, every result of an AI step that got as far as the model client has
\* status FAILURE and is the last result of the run
C15_AIStepFailureHalts ==
    environment.backend \in {"unreachable", "malformed"} =>
        \A i \in 1..Len(report_data.steps) :
            report_data.steps[i].name \in AISteps =>
                /\ report_data.steps[i].status = STATUS_FAILURE
                /\ i = Len(report_data.steps)

\* the tool steps, and the strictness flag of those that read one
ToolSteps == {"format_code", "lint_code", "type_check", "execute_tests", "run_precommit"}
StrictnessFlag(name) ==
    CASE name = "lint_code" -> config.fail_on_lint_critical
      [] name = "type_check" -> config.fail_on_mypy_error
      [] name = "execute_tests" -> config.fail_on_test_failure

\* C16: for every recorded result of a tool step whose tool ended with an exit
\* code: code 0 is SUCCESS; code 1 (issues found) is FAILURE when the step's
\* strictness flag is true and WARNING when it is false (FAILURE or WARNING
\* for the steps without a flag); any other code is FAILURE raised as a tool
\* error, which the result shows as its error message
C16_ToolExitCodeClassification ==
    \A i \in 1..Len(report_data.steps) :
        LET r == report_data.steps[i]
        IN  (r.name \in ToolSteps /\ r.return_code # <<>>) =>
                /\ r.return_code[1] = 0 =>
                       r.status = STATUS_SUCCESS /\ r.error_message = "None"
                /\ r.return_code[1] = 1 =>
                       IF r.name \in {"lint_code", "type_check", "execute_tests"}
                       THEN /\ r.status = IF StrictnessFlag(r.name)
                                          THEN STATUS_FAILURE ELSE STATUS_WARNING
                            /\ r.error_message = "None"
                       ELSE r.status \in {STATUS_FAILURE, STATUS_WARNING}
                /\ r.return_code[1] \notin {0, 1} =>
                       /\ r.status = STATUS_FAILURE
                       /\ r.error_message = "ScribeToolError"

\* C17: with validation_steps [validate_inputs, setup_environment,
\* format_code], the first two results SUCCESS and ruff format ended with exit
\* code 1: the third result is format_code with status FAILURE, the run has
\* failed and left the loop with exactly three results, and once exited the
\* exit code is non-zero and the printed report has overall status FAILURE
\* and exactly three step entries, the third FAILURE
C17_FormatFailureScenario ==
    (/\ validation_steps = <<"validate_inputs", "setup_environment", "format_code">>
     /\ Len(report_data.steps) >= 3
     /\ report_data.steps[1].status = STATUS_SUCCESS
     /\ report_data.steps[2].status = STATUS_SUCCESS
     /\ report_data.steps[3].return_code = <<1>>) =>
        /\ report_data.steps[3].name = "format_code"
        /\ report_data.steps[3].status = STATUS_FAILURE
        /\ ~overall_success
        /\ Len(report_data.steps) = 3
        /\ pc \in {"report", "exited"}
        /\ pc = "exited" =>
               /\ exit_code # EXIT_OK
               /\ Len(printed) = 1
               /\ printed[1].overall_status = STATUS_FAILURE
               /\ Len(printed[1].steps) = 3
               /\ printed[1].steps[3].status = STATUS_FAILURE

\* C17, reached: the scenario has run to its exit
C17_Witness ==
    /\ validation_steps = <<"validate_inputs", "setup_environment", "format_code">>
    /\ RunExited
    /\ Len(printed[1].steps) = 3
    /\ printed[1].steps[1].status = STATUS_SUCCESS
    /\ printed[1].steps[2].status = STATUS_SUCCESS
    /\ printed[1].steps[3].return_code = <<1>>
    /\ printed[1].steps[3].status = STATUS_FAILURE
    /\ exit_code = EXIT_RUN_FAILURE

\* C18: a _call_api call made with an HTTP library available, all of whose
\* requests ended in a network or timeout error, made retries + 1 requests and
\* raised ScribeApiError with the last of those errors as its cause
C18_RetriesThenApiError ==
    \A k \in 1..Len(api_calls) :
        (/\ environment.http_lib # "none"
         /\ api_calls[k].raised # "none"
         /\ \A a \in Range(api_calls[k].attempts) : a = "RequestError") =>
            /\ Len(api_calls[k].attempts) = config.ollama_api_retries + 1
            /\ api_calls[k].raised = "ScribeApiError"
            /\ api_calls[k].cause = "RequestError"

\* how often cmd was handed to subprocess.run
Count(cmd) == Len(SelectSeq(commands, LAMBDA c : c = cmd))

\* C19: when setup_environment is recorded twice, the first time as SUCCESS,
\* the second result is SUCCESS as well and the venv creation command was
\* issued at most once in the run
C19_SetupIdempotent ==
    \A i, j \in 1..Len(report_data.steps) :
        (/\ i < j
         /\ report_data.steps[i].name = "setup_environment"
         /\ report_data.steps[j].name = "setup_environment"
         /\ report_data.steps[i].status = STATUS_SUCCESS) =>
            /\ report_data.steps[j].status = STATUS_SUCCESS
            /\ Count("python -m venv") <= 1

\* C19, reached: setup_environment ran twice on a directory without a venv:
\* both results are SUCCESS and the venv was created exactly once
C19_Witness ==
    /\ RunExited
    /\ RecordedNames = <<"setup_environment", "setup_environment">>
    /\ report_data.steps[1].status = STATUS_SUCCESS
    /\ report_data.steps[2].status = STATUS_SUCCESS
    /\ Count("python -m venv") = 1
    /\ commands[1] = "python -m venv"

\* the install commands of a run, and every manifest/group combination the
\* manifests found call for, in order
RequirementsInstall == "pip install -r requirements.txt"
InstallCommands ==
    SelectSeq(commands,
              LAMBDA c : c \in Range(InstallGroups) \cup {RequirementsInstall})
AllCombinations(manifests) ==
    (IF HasPyproject(manifests) THEN InstallGroups ELSE <<>>)
    \o (IF HasRequirements(manifests) THEN <<RequirementsInstall>> ELSE <<>>)
IsPrefix(s, t) == Len(s) <= Len(t) /\ s = SubSeq(t, 1, Len(s))

\* C20: in a run that recorded install_deps once, with the pip of the venv
\* found: a FAILURE means a manifest is present and every combination was
\* tried (the pyproject.toml groups in order, then requirements.txt); a
\* SUCCESS means the combinations were tried in order up to the first that
\* succeeded, none at all when no manifest is present
C20_InstallDependencies ==
    \A i \in 1..Len(report_data.steps) :
        (/\ report_data.steps[i].name = "install_deps"
         /\ Len(SelectSeq(RecordedNames, LAMBDA n : n = "install_deps")) = 1
         /\ env_manager.pip_path) =>
            /\ report_data.steps[i].status \in {STATUS_SUCCESS, STATUS_FAILURE}
            /\ report_data.steps[i].status = STATUS_FAILURE =>
                   /\ environment.manifests # "none"
                   /\ InstallCommands = AllCombinations(environment.manifests)
            /\ report_data.steps[i].status = STATUS_SUCCESS =>
                   IsPrefix(InstallCommands, AllCombinations(environment.manifests))

\* C21: a call of commit_changes in which git status --porcelain returned an
\* empty output is recorded as SUCCESS with commit_sha "NO_CHANGES", and the
\* call issued git status and nothing else: neither git add nor git commit
C21_NoChangesNoCommit ==
    [][ (NewInvoked = <<"commit_changes">> /\ environment'.porcelain = "") =>
            /\ Len(NewResults) = 1
            /\ NewResults[1].name = "commit_changes"
            /\ NewResults[1].status = STATUS_SUCCESS
            /\ report_data'.commit_sha = "NO_CHANGES"
            /\ NewCommands = <<"git status --porcelain">> ]_vars

\* C21, reached: a run whose only command was a git status that exited 0 with
\* nothing to report has exited 0 with commit_sha NO_CHANGES
C21_Witness ==
    /\ RunExited /\ exit_code = EXIT_OK
    /\ invoked[Len(invoked)] = "commit_changes"
    /\ environment.porcelain = ""
    /\ commands = <<"git status --porcelain">>
    /\ printed[1].commit_sha = "NO_CHANGES"
    /\ printed[1].steps[Len(printed[1].steps)].status = STATUS_SUCCESS

\* the version-control commands of the model
GitCommands ==
    {"git status --porcelain", "git add", "git commit", "git rev-parse HEAD"}

\* C22: when the lookup of git finds no binary, construction ends in run()
\* with git_exe None; from then on the process never fails in construction
\* and no exception leaves run(), no version-control command is issued, every
\* recorded commit_changes result is WARNING or SKIPPED, and every step other
\* than commit_changes can end exactly as it could with git found
C22_GitNotFound ==
    /\ [][ (environment.git = "unknown" /\ environment'.git = "not_found") =>
               (pc' = "run" /\ ~git_exe') ]_vars
    /\ [](environment.git = "not_found" =>
              /\ ~git_exe
              /\ exit_code # EXIT_INIT_FAILURE
              /\ pc # "crashed"
              /\ \A c \in Range(commands) : c \notin GitCommands
              /\ \A i \in 1..Len(report_data.steps) :
                     report_data.steps[i].name = "commit_changes" =>
                         report_data.steps[i].status \in {STATUS_WARNING, STATUS_SKIPPED}
              /\ (pc = "loop" /\ IsStep(validation_steps[step_index])
                      /\ validation_steps[step_index] # "commit_changes") =>
                     execute_step(validation_steps[step_index], step_outputs, World,
                                  config, FALSE, overall_success)
                       = execute_step(validation_steps[step_index], step_outputs, World,
                                      config, TRUE, overall_success))

\* C22, reached: without git and with a commit planned, two steps ran and
\* succeeded, commit_changes was called and recorded as WARNING, and the run
\* exited 0 without a command of git
C22_Witness ==
    /\ environment.git = "not_found"
    /\ do_commit
    /\ RunExited /\ exit_code = EXIT_OK
    /\ invoked = <<"validate_inputs", "format_code", "commit_changes">>
    /\ report_data.steps[1].status = STATUS_SUCCESS
    /\ report_data.steps[2].status = STATUS_SUCCESS
    /\ report_data.steps[3].status = STATUS_WARNING
    /\ commands = <<"ruff format">>

\* the input errors of the source and target file paths
InvalidInputs ==
    {"source_missing", "source_not_a_file", "target_not_relative", "target_escapes"}

\* C23: a target directory that is not valid, a source path that is not valid
\* and a target path that is not valid or escapes the target directory each
\* end the process in construction (exit status 2), with no step function
\* called
C23_InputErrorsFatalAtInit ==
    (environment.target_dir \in TargetDirs \ {"valid"}
         \/ environment.inputs \in InvalidInputs) =>
        /\ invoked = <<>>
        /\ pc = "exited"
        /\ exit_code = EXIT_INIT_FAILURE

\* how a request ends whose reply was received and is erroneous: resp.json()
\* fails, or the reply has an "error" member or no "response" member
ErroneousReplies == {"JSONDecodeError", "ScribeApiError"}

\* C24: in every _call_api call, a request that ended with an erroneous reply
\* is the last request of the call, and the call raised ScribeApiError with
\* that failure as its cause
C24_ErroneousReplyNotRetried ==
    \A k \in 1..Len(api_calls) :
        \A j \in 1..Len(api_calls[k].attempts) :
            api_calls[k].attempts[j] \in ErroneousReplies =>
                /\ j = Len(api_calls[k].attempts)
                /\ api_calls[k].raised = "ScribeApiError"
                /\ api_calls[k].cause = api_calls[k].attempts[j]

\* how a step call ended, apart from the exit code of its tool
Outcome(r) ==
    [raised |-> r.raised, status |-> r.status, message |-> r.message,
     raw_output |-> r.raw_output]

\* the ways the step function name can end when its tool ends with code rc
OutcomesWithCode(name, rc) ==
    { Outcome(r) : r \in { x \in step_func(name, Details("", "test file path"), World,
                                            config, git_exe)
                           : x.return_code = <<rc>> } }

\* the exit codes no tool step gives a meaning of its own
UnexpectedCodes == ExitCodes \ {0, 1}

\* C25: run_tool returns from a timeout, with returncode -1 and the timeout
\* marker in stderr; under every configuration a run starts with, every tool
\* step can end after a timeout of its tool, and then exactly as it can end
\* after an unexpected exit code; a recorded result of a tool that timed out
\* is a FAILURE of a tool step
C25_TimeoutIsAnExitCode ==
    /\ \A t \in ToolEnv(ExitCodes, {""}) :
           t.start = "timeout" =>
               /\ ~run_tool(t).raised
               /\ run_tool(t).returncode = 0 - 1
               /\ run_tool(t).timeout_marker
    /\ pc = "run" =>
           \A name \in ToolSteps :
               /\ OutcomesWithCode(name, 0 - 1) # {}
               /\ \A rc \in UnexpectedCodes :
                      OutcomesWithCode(name, 0 - 1) = OutcomesWithCode(name, rc)
    /\ \A i \in 1..Len(report_data.steps) :
           report_data.steps[i].return_code = <<0 - 1>> =>
               /\ report_data.steps[i].name \in ToolSteps
               /\ report_data.steps[i].status = STATUS_FAILURE

\* C25, reached: the linter ran into the timeout; lint_code is recorded with
\* exit code -1 as a FAILURE from a tool error, and the run has exited 1
C25_Witness ==
    /\ RunExited /\ exit_code = EXIT_RUN_FAILURE
    /\ Len(report_data.steps) = 2
    /\ report_data.steps[2].name = "lint_code"
    /\ report_data.steps[2].return_code = <<0 - 1>>
    /\ report_data.steps[2].status = STATUS_FAILURE
    /\ report_data.steps[2].error_message = "ScribeToolError"
    /\ commands = <<"ruff check --fix">>

\* the three places of an executable, as the caller of _find_executable sees
\* them: an override that is configured and names an executable file, a venv
\* that is supplied and holds the executable, the system search path
OverrideAvailable(input) ==
    /\ input.override.configured /\ input.override.nonblank
    /\ input.override.is_file /\ input.override.executable
VenvAvailable(input) ==
    /\ input.venv.supplied /\ input.venv.is_dir
    /\ input.venv.is_file /\ input.venv.executable
PathAvailable(input) == input.on_path
Located(input) ==
    OverrideAvailable(input) \/ VenvAvailable(input) \/ PathAvailable(input)

\* a call of op has returned or raised
Called(op) == pc = "returned" /\ call.op = op

\* C26: run_tool returns the exit code of a process that ran to its end,
\* whatever the code; it raises ScribeEnvironmentError exactly when the
\* executable is in none of the three places, and ScribeToolError exactly when
\* the executable was located and the process could not be started
C26_RunToolRaises ==
    Called("run_tool") =>
        LET res == call.result[1]
            started == Located(call.input)
        IN  /\ (started /\ call.input.process.start = "ok") =>
                   (~res.raised /\ res.returncode = call.input.process.rc)
            /\ (res.raised /\ res.exc = "ScribeEnvironmentError") <=> ~started
            /\ (res.raised /\ res.exc = "ScribeToolError")
                   <=> (started /\ call.input.process.start = "os_error")

\* C27: _find_executable returns the configured override when that is
\* available, else the binary of the venv when that is available, else the
\* one on the system search path when there is one, and raises
\* FileNotFoundError exactly when none of the three is available
C27_ResolutionOrder ==
    Called("find_executable") =>
        /\ call.result[1] =
               (IF OverrideAvailable(call.input) THEN "configured"
                ELSE IF VenvAvailable(call.input) THEN "venv"
                ELSE IF PathAvailable(call.input) THEN "path"
                ELSE "FileNotFoundError")
        /\ (call.result[1] = "FileNotFoundError") <=> ~Located(call.input)

\* C27, reached: the configured override is no executable file while the venv
\* and the search path both hold the executable, and the venv's was returned
C27_Witness ==
    /\ Called("find_executable")
    /\ call.input.override.configured /\ call.input.override.nonblank
    /\ ~call.input.override.executable
    /\ VenvAvailable(call.input)
    /\ PathAvailable(call.input)
    /\ call.result = <<"venv">>

\* C28: in a call of audit_deps in which the install of pip-audit failed, the
\* audit command is run after the install command, and the step is recorded
\* as WARNING: the run goes on
C28_InstallFailureIsAWarning ==
    [][ (/\ NewInvoked = <<"audit_deps">>
         /\ env_manager.pip_path
         /\ environment'.audit_tool = "install_failed") =>
            /\ NewCommands = <<"pip install pip-audit", "pip audit">>
            /\ Len(NewResults) = 1
            /\ NewResults[1].status = STATUS_WARNING
            /\ overall_success' = overall_success ]_vars

\* the blocks of a kind in a response, in order
Blocks(segments, kind) == SelectSeq(segments, LAMBDA g : g.kind = kind)

\* what the fenced-block convention gives for a response
Convention(segments) ==
    LET tagged == Blocks(segments, "python")
        untagged == Blocks(segments, "untagged")
    IN IF tagged # <<>>
       THEN join(SEPARATOR, [b \in DOMAIN tagged |-> strip(tagged[b].body)])
       ELSE IF untagged # <<>> THEN strip(untagged[1].body)
       ELSE ResponseText(segments)

\* C29: for every response, the method returns the trimmed contents of the
\* blocks tagged python joined in order with the separator comment;
\* otherwise the trimmed content of the first untagged block; otherwise the
\* entire response
C29_FencedBlockConvention ==
    Called("extract_code") => call.result = <<Convention(call.input)>>

\* the well-formed elements of an array, in order
WellFormedItems(items) ==
    LET kept == SelectSeq(items, WellFormed)
    IN [i \in DOMAIN kept |-> Finding(kept[i])]

\* C30: for a response that is a JSON array the method returns its
\* well-formed elements in order, the others dropped one by one; for a single
\* well-formed object, that object as the one element; for any other shape,
\* None
C30_FindingsExtraction ==
    (Called("generate_review") /\ call.input.shape # "blank") =>
        call.result =
            << CASE call.input.shape = "array" ->
                        Findings(WellFormedItems(call.input.items))
                 [] call.input.shape = "object" /\ WellFormed(call.input.items[1]) ->
                        Findings(<<Finding(call.input.items[1])>>)
                 [] OTHER -> NoFindings >>

\* the dependencies given to the step functions called in this transition
NewDependencies ==
    SubSeq(dependency_args', Len(dependency_args) + 1, Len(dependency_args'))

\* the steps that consume the details of another, each with its producer
DependencyLinks ==
    { <<"generate_tests", "extract_signatures">>,
      <<"save_tests", "generate_tests">>,
      <<"execute_tests", "save_tests">> }

\* the position of the last result recorded under a name, 0 without one
LastRecorded(steps, name) ==
    LET at == { i \in 1..Len(steps) : steps[i].name = name }
    IN IF at = {} THEN 0 ELSE CHOOSE i \in at : \A j \in at : j <= i

\* C31: when generate_tests, save_tests or execute_tests is invoked it is
\* given the details last recorded in this run for its producer
\* (extract_signatures, generate_tests, save_tests), as they stand in the
\* step outputs and in the report; with no result recorded for the producer
\* it is invoked without a dependency
C31_DependencyLookup ==
    [][ \A link \in DependencyLinks :
          NewInvoked = <<link[1]>> =>
             LET last == LastRecorded(report_data.steps, link[2])
             IN /\ Len(NewDependencies) = 1
                /\ IF last = 0
                   THEN NewDependencies[1] = NoDetails
                   ELSE /\ NewDependencies[1].present
                        /\ NewDependencies[1] = step_outputs[link[2]]
                        /\ NewDependencies[1].message =
                               report_data.steps[last].message ]_vars

\* a run in which save_tests was called without a dependency before its
\* producer ran, generate_tests was given the signatures, and execute_tests
\* the path of the saved tests
C31_Witness ==
    \E i, j, k \in DOMAIN invoked :
        /\ invoked[i] = "save_tests" /\ dependency_args[i] = NoDetails
        /\ invoked[j] = "generate_tests" /\ dependency_args[j].present
        /\ dependency_args[j].raw_output = "signatures"
        /\ invoked[k] = "execute_tests" /\ dependency_args[k].present
        /\ dependency_args[k].raw_output = "test file path"

\* the fields of the report that hold the findings and outcomes of a run
RunStateFields ==
    {"audit_findings", "ai_review_findings", "test_results_summary", "commit_sha"}

\* C32: a transition in which a step function is called leaves the source and
\* target file paths and the findings and outcomes of the report as they
\* were: the step function writes none of them
C32_StepsLeaveRunState ==
    [][ NewInvoked # <<>> =>
          /\ file_paths' = file_paths
          /\ \A f \in RunStateFields : report_data'[f] = report_data[f] ]_vars

\* the configured steps the loop has gone through
Processed ==
    IF pc = "run" THEN 0
    ELSE IF pc = "loop" THEN step_index - 1
    ELSE IF step_index > Len(validation_steps) THEN Len(validation_steps)
    ELSE step_index

\* C33: at every point of a run with a non-empty configured step list the
\* names of the recorded results are the configured names of the steps gone
\* through so far, in order, one result for each of them
C33_ResultsArePrefix ==
    (/\ validation_steps # <<>>
     /\ pc \in {"run", "loop", "report"} \/ RunExited) =>
        /\ IsPrefix(RecordedNames, validation_steps)
        /\ Len(RecordedNames) = Processed

\* a run of three configured steps that ended with two results, a SKIPPED
\* one and a FAILURE
C33_Witness ==
    /\ RunExited
    /\ Len(validation_steps) = 3
    /\ Len(report_data.steps) = 2
    /\ report_data.steps[1].status = STATUS_SKIPPED
    /\ report_data.steps[2].status = STATUS_FAILURE

\* the version-control commands of commit_changes, in the order of the code
GitCommandOrder ==
    <<"git status --porcelain", "git add", "git commit", "git rev-parse HEAD">>

\* C34: in a call of commit_changes with git found, the commands issued are
\* the first of status, add, commit, rev-parse in that order; git add is
\* run only when status printed changes, git commit only when add exited 0,
\* and the step fails when add did not; git rev-parse only when commit
\* exited 0
C34_GitCommandOrder ==
    [][ (NewInvoked = <<"commit_changes">> /\ git_exe) =>
          LET ended == environment'.git_results
          IN /\ IsPrefix(NewCommands, GitCommandOrder)
             /\ Len(ended) \in 1..4
             /\ Len(NewCommands) \in {Len(ended) - 1, Len(ended)}
             /\ Len(ended) >= 2 =>
                    environment'.porcelain \notin {"", NO_STATUS}
             /\ Len(ended) >= 3 => ended[2] = <<0>>
             /\ (Len(ended) >= 2 /\ ended[2] # <<0>>) =>
                    /\ Len(NewResults) = 1
                    /\ NewResults[1].status = STATUS_FAILURE
             /\ Len(ended) = 4 => ended[3] = <<0>> ]_vars

\* a commit that went through all four commands, and the report shows the sha
C34_Witness ==
    /\ RunExited
    /\ commands = GitCommandOrder
    /\ environment.git_results = << <<0>>, <<0>>, <<0>>, <<0>> >>
    /\ printed[1].commit_sha = "sha"

\* the statuses recorded under commit_changes in a report
CommitStatuses(report) ==
    { report.steps[i].status :
        i \in { j \in 1..Len(report.steps) : report.steps[j].name = "commit_changes" } }

\* C35: in the final report commit_sha is not None only if commit_changes was
\* invoked and is recorded SUCCESS; it is None in every run in which
\* commit_changes was skipped, was not reached, or failed
C35_CommitShaNullUnlessSuccess ==
    RunExited =>
        /\ printed[1].commit_sha # "None" =>
              /\ "commit_changes" \in Range(invoked)
              /\ STATUS_SUCCESS \in CommitStatuses(printed[1])
        /\ (\/ CommitStatuses(printed[1]) = {}
            \/ STATUS_SKIPPED \in CommitStatuses(printed[1])
            \/ STATUS_FAILURE \in CommitStatuses(printed[1])) =>
              printed[1].commit_sha = "None"

\* C35, amended: in the final report commit_sha is not None only if
\* commit_changes was invoked and is recorded SUCCESS; it is None in every
\* run in which no result of commit_changes is SUCCESS
C35_CommitShaOnlyAfterSuccess ==
    RunExited =>
        /\ printed[1].commit_sha # "None" =>
              /\ "commit_changes" \in Range(invoked)
              /\ STATUS_SUCCESS \in CommitStatuses(printed[1])
        /\ STATUS_SUCCESS \notin CommitStatuses(printed[1]) =>
              printed[1].commit_sha = "None"

\* a run that committed in a first commit_changes and failed in a second: the
\* report keeps the sha
C35_Witness ==
    /\ RunExited
    /\ Len(printed[1].steps) = 2
    /\ printed[1].steps[1].name = "commit_changes"
    /\ printed[1].steps[1].status = STATUS_SUCCESS
    /\ printed[1].steps[2].name = "commit_changes"
    /\ printed[1].steps[2].status = STATUS_FAILURE
    /\ printed[1].commit_sha = "sha"

\* C36: in the final report of a run, commit_attempted is true exactly when
\* the effective commit intent is true and commit_changes is among the
\* configured steps, whether or not the step was reached or invoked
C36_CommitAttempted ==
    RunExited =>
        (printed[1].commit_attempted <=>
            (do_commit /\ "commit_changes" \in Range(validation_steps)))

\* a run that planned a commit and halted before the configured
\* commit_changes: the report says the commit was attempted
C36_Witness ==
    /\ RunExited
    /\ do_commit
    /\ "commit_changes" \in Range(validation_steps)
    /\ "commit_changes" \notin Range(invoked)
    /\ "commit_changes" \notin Range(RecordedNames)
    /\ printed[1].overall_status = STATUS_FAILURE
    /\ printed[1].commit_attempted

\* a setup_environment result with status SUCCESS is recorded
SetupCompleted ==
    \E i \in 1..Len(report_data.steps) :
        /\ report_data.steps[i].name = "setup_environment"
        /\ report_data.steps[i].status = STATUS_SUCCESS

\* C37: a call of install_deps or audit_deps before which no
\* setup_environment was recorded SUCCESS in the run issues no command and is
\* recorded FAILURE with an environment error
C37_NoPipNoCommand ==
    [][ (/\ Len(NewInvoked) = 1
         /\ NewInvoked[1] \in {"install_deps", "audit_deps"}
         /\ ~SetupCompleted) =>
            /\ NewCommands = <<>>
            /\ Len(NewResults) = 1
            /\ NewResults[1].name = NewInvoked[1]
            /\ NewResults[1].status = STATUS_FAILURE
            /\ NewResults[1].error_message = "ScribeEnvironmentError"
            /\ ~overall_success' ]_vars

\* a run whose audit_deps came without a setup_environment: it failed without
\* a command
C37_Witness ==
    /\ RunExited
    /\ invoked = <<"validate_inputs", "audit_deps">>
    /\ commands = <<>>
    /\ printed[1].steps[2].status = STATUS_FAILURE
    /\ printed[1].steps[2].error_message = "ScribeEnvironmentError"

IncompleteVenvs == {"python_only", "pip_only", "empty"}

\* C39: a call of setup_environment that finds the venv path there without
\* both python and pip issues no command, is recorded FAILURE with an
\* environment error, and leaves the path as it found it
C39_IncompleteVenvFails ==
    [][ (/\ NewInvoked = <<"setup_environment">>
         /\ environment'.venv_found \in IncompleteVenvs) =>
            /\ NewCommands = <<>>
            /\ Len(NewResults) = 1
            /\ NewResults[1].status = STATUS_FAILURE
            /\ NewResults[1].error_message = "ScribeEnvironmentError"
            /\ env_manager'.venv = environment'.venv_found
            /\ ~overall_success' ]_vars

\* a run whose setup_environment found a venv directory with python and
\* without pip
C39_Witness ==
    /\ RunExited
    /\ invoked = <<"validate_inputs", "setup_environment">>
    /\ environment.venv_found = "python_only"
    /\ env_manager.venv = "python_only"
    /\ commands = <<>>
    /\ printed[1].steps[2].status = STATUS_FAILURE
    /\ exit_code = EXIT_RUN_FAILURE

\* the latest call is a get_active_llm_client_and_model that returned
ClientReturned ==
    /\ lems.result.op = "get_active_llm_client_and_model"
    /\ lems.result.raised = "none"

\* this transition is a configure_primary_ollama_endpoint that returned
\* (False, message)
ConfigureFailed ==
    /\ lems'.result.op = "configure_primary_ollama_endpoint"
    /\ lems'.result.raised = "none"
    /\ ~lems'.result.ok

\* C40: a client get_active_llm_client_and_model returns was instantiated
\* after the latest successful configure_primary_ollama_endpoint and serves the
\* model of the saved configuration; a configure_primary_ollama_endpoint
\* whose save fails returns (False, message) and leaves the cached client and
\* the active configuration as they were
C40_ClientNeverOlderThanConfiguration ==
    /\ [](ClientReturned =>
              /\ lems.result.client > lems.configured_at
              /\ lems.result.client = lems.active_llm_client
              /\ lems.result.model_name = lems.acls.model_name
              /\ lems.active_llm_config.base_url = lems.acls.base_url)
    /\ [][ConfigureFailed =>
              /\ lems'.active_llm_client = lems.active_llm_client
              /\ lems'.active_llm_config = lems.active_llm_config]_vars

\* a client was cached, the endpoint was configured again with another model,
\* and the next get returned a second client for that model
C40_Witness ==
    /\ ClientReturned
    /\ lems.configured_at = 1
    /\ lems.result.client = 2
    /\ lems.result.model_name = "m2"

====
